---- MODULE Spec2Model ----
(***************************************************************************)
(* Insulin/glucose simulator and bandit dosing policy of                  *)
(* InsulinGlucoseModelSimple.py: class Canine (time series, dose folds,   *)
(* forward-Euler glucose update), the state binners, class Welford        *)
(* (weighted streaming statistics, UCB1 score) and class Pump (policy     *)
(* table, dose selection, reward attribution, training loop).             *)
(*                                                                         *)
(* Numbers.  The program computes in IEEE doubles; the model computes in  *)
(* fixed point, every quantity an integer count of a fixed unit, every    *)
(* product and quotient truncated toward zero to that unit:               *)
(*   glucose, food effect, penalties, rewards, mean, M2 : 1/GScale        *)
(*   kernel values, insulin effect, weights, n          : 1/KScale        *)
(*   insulin units, calories                            : 1/UScale        *)
(* The gamma densities are tabulated at the integer minute offsets the    *)
(* program evaluates them at (self.time is np.arange), in units 1/KScale. *)
(***************************************************************************)
EXTENDS Integers, Sequences, FiniteSets, TLC

(***************************************************************************)
(* Bounds of the model.                                                    *)
(***************************************************************************)
\* Canine(time=T): the horizon, len(self.time).  The tables reach offset 419.
T == 361
\* Number of calls made through the public entry points in one behaviour.
MaxCalls == 3
\* Number of Welford.update calls made on the statistic under test.
MaxSamples == 3
\* Length of the list of points passed to linear_regression_slope.
MaxPoints == 3
\* Slash commands that arrive at the bot in one behaviour.
MaxCommands == 4
\* Requests made to the FeederController in one behaviour.
MaxRequests == 3
\* Iterations of the while loop of dispense in one call.
MaxPolls == 7
\* Minutes of clock time over which the AlertManager is driven.
MaxClock == 11

(***************************************************************************)
(* Units of the fixed-point representation.                                *)
(***************************************************************************)
GScale == 10^4
KScale == 10^7
UScale == 10^2
LnScale == 10^6

Time == 0 .. (T - 1)

(***************************************************************************)
(* Arithmetic helpers: the doubles' * and / on the fixed-point grid.       *)
(***************************************************************************)
Abs(x) == IF x < 0 THEN -x ELSE x

Max(a, b) == IF a > b THEN a ELSE b

Sign(x) == IF x < 0 THEN -1 ELSE 1

\* <<q, r>> with a * b = q * c + r and 0 <= r < c, for a, b >= 0 and c > 0,
\* computed bit by bit over b so that no intermediate leaves 32 bits.
RECURSIVE MulDivQR(_, _, _)
MulDivQR(a, b, c) ==
  IF b = 0 THEN <<0, 0>>
  ELSE LET h == MulDivQR(a, b \div 2, c)
           t == 2 * h[2] + (b % 2) * a
       IN  <<2 * h[1] + (t \div c), t % c>>

\* floor(a * b / c) for a, b >= 0, c > 0.
MulDivNat(a, b, c) ==
  IF a = 0 \/ b = 0 THEN 0
  ELSE IF a <= 2147483647 \div b THEN (a * b) \div c
  ELSE MulDivQR(a % c, b, c)[1] + (a \div c) * b

\* a * b / c truncated toward zero, any signs of a and b, c > 0.
MulDiv(a, b, c) == Sign(a) * Sign(b) * MulDivNat(Abs(a), Abs(b), c)

\* floor(sqrt(x)) for x >= 0, by bisection on lo <= sqrt(x) < hi.
RECURSIVE ISqrtBetween(_, _, _)
ISqrtBetween(x, lo, hi) ==
  IF hi - lo <= 1 THEN lo
  ELSE LET mid == (lo + hi) \div 2
       IN  IF mid * mid <= x THEN ISqrtBetween(x, mid, hi)
           ELSE ISqrtBetween(x, lo, mid)

ISqrt(x) == ISqrtBetween(x, 0, 46341)

\* floor(log2(x)) for x >= 1.
RECURSIVE Log2Floor(_)
Log2Floor(x) == IF x < 2 THEN 0 ELSE 1 + Log2Floor(x \div 2)

\* ln(x) in units 1/LnScale for an integer x >= 1:
\* x = 2^k * m, 1 <= m < 2, ln(m) = 2 atanh(z), z = (m - 1)/(m + 1) < 1/3,
\* atanh(z) = z + z^3/3 + z^5/5 + z^7/7 + z^9/9 (remainder below 1e-6).
LnNat(x) ==
  LET k  == Log2Floor(x)
      p  == 2 ^ k
      z  == MulDivNat(x - p, LnScale, x + p)
      z2 == MulDivNat(z, z, LnScale)
      z4 == MulDivNat(z2, z2, LnScale)
      z6 == MulDivNat(z4, z2, LnScale)
      z8 == MulDivNat(z4, z4, LnScale)
      s  == LnScale + (z2 \div 3) + (z4 \div 5) + (z6 \div 7) + (z8 \div 9)
  IN  k * 693147 + 2 * MulDivNat(z, s, LnScale)

(***************************************************************************)
(* scipy.stats.gamma.pdf(x, a=k, scale=theta) at x = 0, 1, 2, ..., for the *)
(* four (k, theta) pairs the program uses, in units 1/KScale, rounded to   *)
(* the nearest unit.  Entry x + 1 of a table is the density at x.          *)
(***************************************************************************)
GammaPdf_3_105 ==
  <<
     0, 4, 17, 38, 67, 103, 147, 198, 256, 321, 393, 471,
     555, 645, 741, 842, 949, 1062, 1179, 1301, 1428, 1559, 1695, 1835,
     1980, 2128, 2279, 2435, 2594, 2756, 2921, 3090, 3261, 3435, 3612, 3791,
     3973, 4157, 4343, 4531, 4721, 4913, 5107, 5303, 5499, 5698, 5897, 6098,
     6300, 6503, 6707, 6912, 7118, 7324, 7531, 7738, 7946, 8154, 8363, 8572,
     8781, 8990, 9199, 9408, 9617, 9826, 10035, 10243, 10451, 10659, 10866, 11073,
     11279, 11484, 11689, 11894, 12097, 12300, 12502, 12703, 12903, 13102, 13300, 13498,
     13694, 13889, 14083, 14276, 14467, 14658, 14847, 15035, 15221, 15407, 15591, 15773,
     15954, 16134, 16312, 16489, 16664, 16838, 17010, 17181, 17350, 17518, 17684, 17849,
     18011, 18173, 18332, 18490, 18646, 18801, 18954, 19105, 19254, 19402, 19548, 19692,
     19835, 19976, 20115, 20252, 20388, 20521, 20653, 20784, 20912, 21039, 21164, 21287,
     21408, 21528, 21646, 21762, 21876, 21988, 22099, 22208, 22315, 22420, 22524, 22626,
     22726, 22824, 22921, 23016, 23109, 23200, 23290, 23378, 23464, 23548, 23631, 23712,
     23791, 23869, 23945, 24019, 24091, 24162, 24231, 24299, 24365, 24429, 24492, 24553,
     24612, 24670, 24726, 24781, 24834, 24885, 24935, 24984, 25030, 25076, 25119, 25162,
     25202, 25242, 25279, 25316, 25351, 25384, 25416, 25446, 25476, 25503, 25530, 25554,
     25578, 25600, 25621, 25640, 25658, 25675, 25691, 25705, 25718, 25729, 25740, 25749,
     25757, 25763, 25769, 25773, 25776, 25778, 25778, 25778, 25776, 25773, 25769, 25764,
     25758, 25750, 25742, 25732, 25722, 25710, 25697, 25683, 25669, 25653, 25636, 25618,
     25600, 25580, 25559, 25537, 25515, 25491, 25467, 25442, 25415, 25388, 25360, 25332,
     25302, 25271, 25240, 25208, 25175, 25141, 25106, 25071, 25035, 24998, 24960, 24922,
     24883, 24843, 24802, 24761, 24719, 24676, 24633, 24589, 24544, 24499, 24453, 24407,
     24360, 24312, 24263, 24215, 24165, 24115, 24064, 24013, 23961, 23909, 23856, 23803,
     23749, 23695, 23640, 23585, 23529, 23473, 23416, 23359, 23301, 23243, 23185, 23126,
     23066, 23007, 22947, 22886, 22825, 22764, 22702, 22640, 22578, 22516, 22453, 22389,
     22326, 22262, 22197, 22133, 22068, 22003, 21937, 21872, 21806, 21740, 21673, 21606,
     21540, 21472, 21405, 21337, 21269, 21201, 21133, 21065, 20996, 20927, 20858, 20789,
     20720, 20650, 20581, 20511, 20441, 20371, 20300, 20230, 20160, 20089, 20018, 19947,
     19876, 19805, 19734, 19663, 19592, 19520, 19449, 19377, 19306, 19234, 19162, 19091,
     19019, 18947, 18875, 18803, 18731, 18659, 18587, 18515, 18443, 18371, 18299, 18227,
     18155, 18083, 18011, 17939, 17867, 17795, 17723, 17651, 17579, 17507, 17436, 17364,
     17292, 17220, 17149, 17077, 17006, 16934, 16863, 16791, 16720, 16649, 16578, 16507,
     16436, 16365, 16294, 16223, 16153, 16082, 16012, 15941, 15871, 15801, 15731, 15661,
     15591, 15522, 15452, 15383, 15313, 15244, 15175, 15106, 15037, 14968, 14900, 14831,
     14763, 14695, 14627, 14559, 14491, 14424, 14356, 14289, 14222, 14155, 14088, 14021
  >>

GammaPdf_5_120 ==
  <<
     0, 0, 0, 0, 0, 0, 0, 0, 0, 0, 0, 0,
     0, 0, 1, 1, 1, 1, 2, 2, 2, 3, 3, 4,
     5, 5, 6, 7, 8, 9, 11, 12, 13, 15, 17, 19,
     21, 23, 25, 28, 31, 34, 37, 40, 43, 47, 51, 55,
     60, 64, 69, 74, 79, 85, 91, 97, 103, 110, 117, 124,
     132, 139, 148, 156, 165, 174, 183, 193, 203, 214, 224, 235,
     247, 259, 271, 284, 297, 310, 324, 338, 352, 367, 382, 398,
     414, 430, 447, 465, 482, 500, 519, 538, 557, 577, 597, 618,
     639, 661, 683, 705, 728, 751, 775, 799, 823, 848, 874, 900,
     926, 953, 980, 1008, 1036, 1065, 1094, 1123, 1153, 1184, 1214, 1246,
     1277, 1310, 1342, 1375, 1409, 1443, 1477, 1512, 1547, 1583, 1619, 1655,
     1692, 1730, 1767, 1806, 1844, 1883, 1923, 1963, 2003, 2044, 2085, 2127,
     2169, 2211, 2254, 2297, 2340, 2384, 2429, 2473, 2519, 2564, 2610, 2656,
     2703, 2750, 2797, 2845, 2893, 2941, 2990, 3039, 3088, 3138, 3188, 3239,
     3289, 3340, 3392, 3443, 3495, 3548, 3600, 3653, 3707, 3760, 3814, 3868,
     3922, 3977, 4032, 4087, 4142, 4198, 4254, 4310, 4366, 4423, 4480, 4537,
     4594, 4652, 4710, 4768, 4826, 4884, 4943, 5001, 5060, 5119, 5179, 5238,
     5298, 5358, 5418, 5478, 5538, 5598, 5659, 5720, 5781, 5842, 5903, 5964,
     6025, 6087, 6148, 6210, 6271, 6333, 6395, 6457, 6519, 6581, 6643, 6706,
     6768, 6830, 6893, 6955, 7018, 7080, 7143, 7205, 7268, 7331, 7393, 7456,
     7519, 7581, 7644, 7707, 7769, 7832, 7894, 7957, 8020, 8082, 8144, 8207,
     8269, 8332, 8394, 8456, 8518, 8580, 8642, 8704, 8766, 8828, 8890, 8951,
     9013, 9074, 9135, 9196, 9258, 9319, 9379, 9440, 9501, 9561, 9622, 9682,
     9742, 9802, 9862, 9921, 9981, 10040, 10099, 10158, 10217, 10276, 10334, 10393,
     10451, 10509, 10566, 10624, 10681, 10739, 10796, 10853, 10909, 10966, 11022, 11078,
     11133, 11189, 11244, 11300, 11354, 11409, 11464, 11518, 11572, 11625, 11679, 11732,
     11785, 11838, 11890, 11943, 11995, 12046, 12098, 12149, 12200, 12251, 12301, 12351,
     12401, 12451, 12500, 12549, 12598, 12647, 12695, 12743, 12790, 12838, 12885, 12932,
     12978, 13024, 13070, 13116, 13161, 13206, 13251, 13295, 13339, 13383, 13427, 13470,
     13513, 13555, 13598, 13640, 13681, 13722, 13763, 13804, 13844, 13884, 13924, 13964,
     14003, 14041, 14080, 14118, 14156, 14193, 14230, 14267, 14303, 14339, 14375, 14411,
     14446, 14481, 14515, 14549, 14583, 14616, 14649, 14682, 14715, 14747, 14779, 14810,
     14841, 14872, 14902, 14932, 14962, 14991, 15020, 15049, 15078, 15106, 15133, 15161,
     15188, 15214, 15241, 15267, 15292, 15318, 15343, 15367, 15392, 15416, 15439, 15462,
     15485, 15508, 15530, 15552, 15574, 15595, 15616, 15637, 15657, 15677, 15696, 15715
  >>

GammaPdf_4_22 ==
  <<
     0, 7, 52, 168, 380, 709, 1170, 1775, 2532, 3445, 4516, 5744,
     7125, 8657, 10332, 12143, 14082, 16140, 18308, 20575, 22932, 25367, 27870, 30430,
     33038, 35683, 38355, 41044, 43742, 46438, 49125, 51794, 54439, 57050, 59623, 62150,
     64625, 67044, 69401, 71691, 73911, 76058, 78126, 80115, 82021, 83843, 85578, 87225,
     88783, 90251, 91629, 92917, 94114, 95221, 96237, 97165, 98004, 98756, 99422, 100004,
     100501, 100918, 101254, 101512, 101694, 101802, 101837, 101802, 101700, 101531, 101299, 101006,
     100653, 100244, 99780, 99264, 98698, 98084, 97425, 96722, 95979, 95196, 94377, 93523,
     92636, 91719, 90773, 89800, 88803, 87783, 86741, 85681, 84602, 83508, 82399, 81277,
     80144, 79000, 77849, 76690, 75525, 74356, 73183, 72008, 70832, 69656, 68480, 67307,
     66136, 64969, 63806, 62649, 61498, 60353, 59216, 58087, 56966, 55855, 54753, 53661,
     52580, 51510, 50452, 49405, 48371, 47348, 46339, 45343, 44359, 43389, 42433, 41490,
     40561, 39647, 38746, 37859, 36987, 36128, 35285, 34455, 33640, 32838, 32052, 31279,
     30520, 29776, 29046, 28329, 27626, 26938, 26262, 25601, 24952, 24317, 23695, 23086,
     22490, 21907, 21336, 20777, 20231, 19697, 19174, 18664, 18164, 17677, 17200, 16735,
     16280, 15836, 15403, 14979, 14566, 14163, 13770, 13386, 13012, 12647, 12291, 11944,
     11605, 11275, 10954, 10641, 10335, 10038, 9748, 9466, 9192, 8924, 8664, 8410,
     8163, 7923, 7689, 7462, 7240, 7025, 6816, 6612, 6414, 6221, 6034, 5852,
     5675, 5503, 5336, 5173, 5015, 4862, 4713, 4568, 4427, 4291, 4158, 4029,
     3904, 3783, 3665, 3550, 3439, 3332, 3227, 3125, 3027, 2931, 2839, 2749,
     2661, 2577, 2495, 2415, 2338, 2263, 2190, 2120, 2052, 1985, 1921, 1859,
     1799, 1741, 1684, 1629, 1576, 1525, 1475, 1427, 1380, 1335, 1291, 1248,
     1207, 1167, 1129, 1091, 1055, 1020, 986, 953, 922, 891, 861, 832,
     804, 777, 751, 726, 702, 678, 655, 633, 612, 591, 571, 551,
     533, 515, 497, 480, 464, 448, 433, 418, 403, 390, 376, 363,
     351, 339, 327, 316, 305, 294, 284, 274, 265, 256, 247, 238,
     230, 222, 214, 207, 199, 192, 186, 179, 173, 167, 161, 155,
     150, 145, 139, 135, 130, 125, 121, 116, 112, 108, 105, 101,
     97, 94, 90, 87, 84, 81, 78, 75, 73, 70, 68, 65,
     63, 61, 58, 56, 54, 52, 50, 49, 47, 45, 44, 42,
     40, 39, 38, 36, 35, 34, 32, 31, 30, 29, 28, 27,
     26, 25, 24, 23, 22, 22, 21, 20, 19, 19, 18, 17,
     17, 16, 15, 15, 14, 14, 13, 13, 12, 12, 11, 11,
     11, 10, 10, 9, 9, 9, 8, 8, 8, 8, 7, 7,
     7, 6, 6, 6, 6, 6, 5, 5, 5, 5, 5, 4,
     4, 4, 4, 4, 4, 4, 3, 3, 3, 3, 3, 3
  >>

GammaPdf_7_24 ==
  <<
     0, 0, 0, 0, 0, 0, 0, 0, 1, 1, 2, 3,
     5, 9, 13, 18, 26, 36, 49, 65, 84, 108, 137, 172,
     213, 261, 317, 381, 454, 538, 632, 739, 857, 989, 1135, 1295,
     1471, 1663, 1872, 2098, 2343, 2606, 2888, 3191, 3513, 3856, 4220, 4606,
     5012, 5441, 5892, 6364, 6859, 7375, 7914, 8474, 9057, 9660, 10285, 10931,
     11597, 12284, 12990, 13715, 14459, 15221, 16001, 16797, 17609, 18437, 19279, 20135,
     21004, 21885, 22777, 23680, 24593, 25514, 26442, 27378, 28319, 29265, 30216, 31169,
     32124, 33081, 34037, 34993, 35948, 36899, 37848, 38792, 39730, 40663, 41588, 42506,
     43415, 44314, 45204, 46082, 46949, 47804, 48645, 49473, 50286, 51084, 51867, 52633,
     53383, 54116, 54831, 55528, 56207, 56866, 57507, 58127, 58728, 59309, 59869, 60408,
     60926, 61423, 61899, 62353, 62786, 63197, 63587, 63954, 64300, 64624, 64926, 65207,
     65466, 65703, 65918, 66113, 66286, 66438, 66569, 66679, 66769, 66838, 66887, 66917,
     66926, 66917, 66888, 66840, 66774, 66690, 66588, 66468, 66331, 66177, 66007, 65820,
     65618, 65400, 65167, 64919, 64656, 64380, 64090, 63787, 63471, 63142, 62801, 62448,
     62084, 61710, 61324, 60928, 60522, 60107, 59683, 59250, 58808, 58359, 57902, 57437,
     56966, 56488, 56004, 55514, 55018, 54517, 54011, 53501, 52986, 52468, 51945, 51420,
     50891, 50359, 49826, 49289, 48751, 48212, 47671, 47128, 46585, 46041, 45497, 44953,
     44409, 43865, 43321, 42778, 42236, 41695, 41155, 40617, 40081, 39546, 39013, 38483,
     37954, 37428, 36905, 36384, 35867, 35352, 34840, 34332, 33827, 33325, 32827, 32333,
     31842, 31355, 30872, 30393, 29918, 29448, 28981, 28519, 28061, 27607, 27158, 26713,
     26273, 25838, 25407, 24980, 24558, 24141, 23729, 23322, 22919, 22521, 22127, 21739,
     21355, 20976, 20602, 20233, 19868, 19508, 19153, 18803, 18457, 18117, 17781, 17449,
     17123, 16801, 16483, 16171, 15863, 15559, 15260, 14966, 14676, 14390, 14109, 13832,
     13560, 13292, 13028, 12769, 12513, 12262, 12015, 11772, 11533, 11298, 11067, 10840,
     10617, 10398, 10182, 9971, 9763, 9558, 9358, 9160, 8967, 8777, 8590, 8407,
     8227, 8050, 7877, 7707, 7540, 7376, 7215, 7058, 6903, 6751, 6603, 6457,
     6314, 6173, 6036, 5901, 5769, 5639, 5513, 5388, 5266, 5147, 5030, 4915,
     4803, 4693, 4585, 4479, 4376, 4275, 4176, 4079, 3984, 3891, 3800, 3710,
     3623, 3538, 3454, 3373, 3293, 3215, 3138, 3063, 2990, 2918, 2848, 2780,
     2713, 2647, 2583, 2520, 2459, 2399, 2341, 2284, 2228, 2173, 2120, 2067,
     2016, 1967, 1918, 1870, 1824, 1778, 1734, 1691, 1649, 1607, 1567, 1527,
     1489, 1451, 1415, 1379, 1344, 1310, 1276, 1244, 1212, 1181, 1151, 1121,
     1093, 1065, 1037, 1010, 984, 959, 934, 910, 886, 863, 840, 818,
     797, 776, 756, 736, 717, 698, 679, 661, 644, 627, 610, 594,
     578, 563, 548, 533, 519, 505, 492, 478, 466, 453, 441, 429
  >>

\* gamma.pdf(x, a=k, scale=theta); the density is 0 left of its support.
GammaPdf(x, k, theta) ==
  IF x < 0 THEN 0
  ELSE CASE k = 3 /\ theta = 105 -> GammaPdf_3_105[x + 1]
         [] k = 5 /\ theta = 120 -> GammaPdf_5_120[x + 1]
         [] k = 4 /\ theta = 22  -> GammaPdf_4_22[x + 1]
         [] k = 7 /\ theta = 24  -> GammaPdf_7_24[x + 1]

\* Faulty variant of gamma_kernel: the np.where guard dropped, so the curve
\* is mirrored to the ticks before the onset.
gamma_kernel_acausal(t, onset, k, theta) == GammaPdf(Abs(t - onset), k, theta)

\* Faulty variant of gamma_kernel: the effect starts 10 minutes before the
\* onset.
gamma_kernel_early(t, onset, k, theta) ==
  IF t < onset - 10 THEN 0 ELSE GammaPdf(t - onset + 10, k, theta)

\* gamma_kernel(t, onset, k, theta): np.where(t < onset, 0, gamma.pdf(t - onset)).
gamma_kernel(t, onset, k, theta) ==
  IF t < onset THEN 0 ELSE GammaPdf(t - onset, k, theta)

(***************************************************************************)
(* The candidate doses, in insulin units / UScale.                         *)
(***************************************************************************)
DOSE_RANGE == <<0, 5, 10, 25, 50, 100>>

(***************************************************************************)
(* Canine: constants set by __init__.                                      *)
(***************************************************************************)
\* step_size, the constructor's default.
step_size == 1
\* constant_background_use_rate, in glucose units per minute.
constant_background_use_rate == 0
\* kidney_clearance_rate = 2/20/1000, kept as the quotient the source writes.
KidneyNum == 2
KidneyDen == 20 * 1000
\* insulin_sensitivity = 0.62, in hundredths.
insulin_sensitivity == 62
\* food_sensitivity = 8.0.
food_sensitivity == 8
\* The renal threshold of update, 180 mg/dL.
RenalThreshold == 180
\* The look-ahead of iob / fob, t + 300.
Lookahead == 300

(***************************************************************************)
(* State.                                                                  *)
(*   Canine: BGL, BGL_Rate, effective_insulin, effective_food (arrays over *)
(*           Time), insulin_doses (dict: administration time -> units).    *)
(*   Pump:   qtable (dict of dicts, here one map from <<key, dose>> to a   *)
(*           Welford record, its domain the entries created so far),       *)
(*           dose_step_size, feed_step_size, feed_calories.                *)
(*   train_dosing_scheme: index (the loop variable), pc.                   *)
(*   stat, samples: one Welford statistic driven directly, and the         *)
(*           (value, weight) pairs passed to it so far.                    *)
(*   calls, last, charged, selections: bookkeeping of the behaviour, read  *)
(*           by the properties only: the number of entry-point calls made, *)
(*           the last call, the update_reward calls of the last            *)
(*           adjust_table, and per state key the doses choose_dose has     *)
(*           returned for it.                                              *)
(*   chosen_key: bookkeeping, per dosing tick the state key choose_dose    *)
(*           derived at that tick.                                         *)
(*   twin:   a second Canine and Pump with their own loop variable, run    *)
(*           through train_dosing_scheme beside the first.                 *)
(*   regression (libre_watch.py): the last call of linear_regression_slope.*)
(*   alerts (libre_watch.py): an AlertManager, the clock it reads, and the *)
(*           alerts it has posted.                                         *)
(*   dispenser (feed.py): the motor, the limit switch, the monotonic clock *)
(*           and the frame of the running dispense call.                   *)
(*   feeder (benny_api.py): a FeederController, the clock it reads, and    *)
(*           the dispense calls it has made.                               *)
(*   bot (feeder_bot.py): the slash commands in flight, rescue_lock, and   *)
(*           the actuator runs in the executor's threads.                  *)
(***************************************************************************)
VARIABLES BGL, BGL_Rate, effective_insulin, effective_food, insulin_doses,
          qtable, dose_step_size, feed_step_size, feed_calories,
          index, pc, stat, samples, calls, last, charged, selections,
          chosen_key, twin, regression, alerts, dispenser, feeder, bot

canineVars == <<BGL, BGL_Rate, effective_insulin, effective_food, insulin_doses>>
pumpVars == <<qtable, dose_step_size, feed_step_size, feed_calories>>
simVars == <<BGL, BGL_Rate, effective_insulin, effective_food, insulin_doses,
             qtable, dose_step_size, feed_step_size, feed_calories,
             index, pc, stat, samples, calls, last, charged, selections,
             chosen_key, twin>>
deviceVars == <<regression, alerts, dispenser, feeder, bot>>
vars == <<BGL, BGL_Rate, effective_insulin, effective_food, insulin_doses,
          qtable, dose_step_size, feed_step_size, feed_calories,
          index, pc, stat, samples, calls, last, charged, selections,
          chosen_key, twin, regression, alerts, dispenser, feeder, bot>>

(***************************************************************************)
(* Canine.                                                                 *)
(***************************************************************************)
\* np.zeros_like(self.time, dtype=np.float64)
Zeros == [t \in Time |-> 0]

\* Faulty variant of CanineInit: the glucose-rate series constructed with
\* the rate of the first tick filled in (2 mg/dL per minute).
CanineInitRated(bgl0) ==
  /\ BGL = [t \in Time |-> IF t = 0 THEN bgl0 ELSE 0]
  /\ BGL_Rate = [t \in Time |-> IF t = 0 THEN 2 * GScale ELSE 0]
  /\ effective_insulin = Zeros
  /\ effective_food = Zeros
  /\ insulin_doses = <<>>

\* Canine.__init__(BGL=bgl0): the state after construction.
CanineInit(bgl0) ==
  /\ BGL = [t \in Time |-> IF t = 0 THEN bgl0 ELSE 0]
  /\ BGL_Rate = Zeros
  /\ effective_insulin = Zeros
  /\ effective_food = Zeros
  /\ insulin_doses = <<>>

\* Canine.insulin_kernel(time): gamma.pdf(time, a=3, scale=105)
\*                              + gamma.pdf(time, a=5, scale=120).
insulin_kernel(time) == GammaPdf(time, 3, 105) + GammaPdf(time, 5, 120)

\* The lambda insulin_dose of dose_insulin, evaluated on self.time.
insulin_dose(administration_time, units) ==
  [t \in Time |->
     (units * (gamma_kernel(t, administration_time, 3, 105)
               + gamma_kernel(t, administration_time, 5, 120))) \div UScale]

\* The lambda food_dose of dose_food, evaluated on self.time.
food_dose(administration_time, units) ==
  [t \in Time |->
     (food_sensitivity * units
        * (gamma_kernel(t, administration_time, 4, 22)
           + gamma_kernel(t, administration_time, 7, 24)))
       \div ((UScale * KScale) \div GScale)]

\* Faulty variant of AddInPlace: series = curve, a replacement, not a fold.
AddInPlaceReplace(series, curve) == curve

\* series += curve  (numpy in-place add over the whole array).
AddInPlace(series, curve) == [t \in Time |-> series[t] + curve[t]]

\* Faulty variant of SetItem: an existing key keeps its first value.
SetItemKeepFirst(dict, key, value) ==
  [k \in (DOMAIN dict) \cup {key} |-> IF k \in DOMAIN dict THEN dict[k] ELSE value]

\* self.insulin_doses[administration_time] = units
SetItem(dict, key, value) ==
  [k \in (DOMAIN dict) \cup {key} |-> IF k = key THEN value ELSE dict[k]]

\* effective_insulin after dose_insulin(administration_time, units).
InsulinAfterDose(series, administration_time, units) ==
  AddInPlace(series, insulin_dose(administration_time, units))

\* effective_food after dose_food(administration_time, units).
FoodAfterDose(series, administration_time, units) ==
  AddInPlace(series, food_dose(administration_time, units))

\* Canine.dose_insulin(administration_time, units)
dose_insulin(administration_time, units) ==
  /\ effective_insulin' =
       InsulinAfterDose(effective_insulin, administration_time, units)
  /\ insulin_doses' = SetItem(insulin_doses, administration_time, units)
  /\ UNCHANGED <<BGL, BGL_Rate, effective_food>>

\* Canine.dose_food(administration_time, units)
dose_food(administration_time, units) ==
  /\ effective_food' =
       FoodAfterDose(effective_food, administration_time, units)
  /\ UNCHANGED <<BGL, BGL_Rate, effective_insulin, insulin_doses>>

\* Faulty variant of UpdateValue: the kidney term without max(0, .), so that
\* it clears (negative) glucose below the renal threshold too.
UpdateValueNoRenalThreshold(bgl, food, insulin, i) ==
  bgl[i - 1]
  + food[i - 1]
  - MulDiv(MulDiv(step_size * bgl[i - 1], insulin_sensitivity, 100),
           insulin[i - 1], KScale)
  - step_size * constant_background_use_rate
  - (step_size * KidneyNum * (bgl[i - 1] - RenalThreshold * GScale))
      \div KidneyDen

\* Faulty variant of UpdateValue: the kidney term added instead of subtracted.
UpdateValueKidneyAdds(bgl, food, insulin, i) ==
  bgl[i - 1]
  + food[i - 1]
  - MulDiv(MulDiv(step_size * bgl[i - 1], insulin_sensitivity, 100),
           insulin[i - 1], KScale)
  - step_size * constant_background_use_rate
  + (step_size * KidneyNum * Max(0, bgl[i - 1] - RenalThreshold * GScale))
      \div KidneyDen

\* The right-hand side of the assignment in Canine.update(index), index > 0.
UpdateValue(bgl, food, insulin, i) ==
  bgl[i - 1]
  + food[i - 1]
  - MulDiv(MulDiv(step_size * bgl[i - 1], insulin_sensitivity, 100),
           insulin[i - 1], KScale)
  - step_size * constant_background_use_rate
  - (step_size * KidneyNum * Max(0, bgl[i - 1] - RenalThreshold * GScale))
      \div KidneyDen

\* BGL after Canine.update(index).
BGLAfterUpdate(bgl, food, insulin, i) ==
  IF i = 0 THEN bgl
  ELSE [bgl EXCEPT ![i] = UpdateValue(bgl, food, insulin, i)]

\* Canine.update(index)
update(i) ==
  /\ BGL' = BGLAfterUpdate(BGL, effective_food, effective_insulin, i)
  /\ UNCHANGED <<BGL_Rate, effective_insulin, effective_food, insulin_doses>>

\* Faulty variant of iob: the effect array read at t itself.
iob_current(series, t) == series[t]

\* Canine.iob(t) and Canine.fob(t): the effect arrays read at t + 300.
iob(series, t) == series[t + Lookahead]

fob(series, t) == series[t + Lookahead]

(***************************************************************************)
(* State binners: the if/elif chains over literal thresholds.              *)
(***************************************************************************)
\* Faulty variant of the binning chains: v <= threshold selects the lower bin.
RECURSIVE BinFromClosed(_, _, _)
BinFromClosed(v, th, i) ==
  IF i > Len(th) THEN Len(th)
  ELSE IF v <= th[i] THEN i - 1
  ELSE BinFromClosed(v, th, i + 1)

\* if v < th[1]: 0 elif v < th[2]: 1 ... else: len(th)
RECURSIVE BinFrom(_, _, _)
BinFrom(v, th, i) ==
  IF i > Len(th) THEN Len(th)
  ELSE IF v < th[i] THEN i - 1
  ELSE BinFrom(v, th, i + 1)

\* bin_glucose(g), g in units 1/GScale: thresholds 60, 80, 130, 200, 300, 400.
bin_glucose(g) ==
  BinFrom(g, <<60 * GScale, 80 * GScale, 130 * GScale,
               200 * GScale, 300 * GScale, 400 * GScale>>, 1)

\* bin_glucose_rate(g): thresholds -3, -1.5, -0.5, 0.5, 1.5, 3.
bin_glucose_rate(g) ==
  BinFrom(g, <<-3 * GScale, -(15 * GScale) \div 10, -(5 * GScale) \div 10,
               (5 * GScale) \div 10, (15 * GScale) \div 10, 3 * GScale>>, 1)

\* bin_iob(i), i in units 1/KScale:
\* thresholds 0.0025, 0.005, 0.0075, 0.010, 0.0175, 0.0250.
bin_iob(i) ==
  BinFrom(i, <<25 * (KScale \div 10000), 50 * (KScale \div 10000),
               75 * (KScale \div 10000), 100 * (KScale \div 10000),
               175 * (KScale \div 10000), 250 * (KScale \div 10000)>>, 1)

\* bin_fob(i), i in units 1/GScale: thresholds 2.5, 5, 7.5, 10, 15, 20.
bin_fob(i) ==
  BinFrom(i, <<(25 * GScale) \div 10, 5 * GScale, (75 * GScale) \div 10,
               10 * GScale, 15 * GScale, 20 * GScale>>, 1)

(***************************************************************************)
(* Welford: n in units 1/KScale, mean and M2 in units 1/GScale.            *)
(***************************************************************************)
\* Welford(): n = 0.0, mean = 0.0, M2 = 0.0
FreshWelford == [n |-> 0, mean |-> 0, M2 |-> 0]

\* The skip threshold of Welford.update, weight < 1e-4.
SkipThreshold == KScale \div 10000

\* Faulty variant of Welford.update: M2 grows by weight * delta * delta, the
\* deviation from the old mean squared.
WelfordUpdateDeltaSquared(w, value, weight) ==
  IF weight < SkipThreshold THEN w
  ELSE LET n1     == w.n + weight
           delta  == value - w.mean
           mean1  == w.mean + MulDiv(weight, delta, n1)
       IN  [n    |-> n1,
            mean |-> mean1,
            M2   |-> w.M2 + MulDiv(MulDiv(delta, delta, GScale), weight, KScale)]

\* Faulty variant of Welford.update: only weights of zero or less are skipped.
WelfordUpdateSkipNonPositive(w, value, weight) ==
  IF weight <= 0 THEN w
  ELSE LET n1     == w.n + weight
           delta  == value - w.mean
           mean1  == w.mean + MulDiv(weight, delta, n1)
           delta2 == value - mean1
       IN  [n    |-> n1,
            mean |-> mean1,
            M2   |-> w.M2 + MulDiv(MulDiv(delta, delta2, GScale), weight, KScale)]

\* Faulty variant of Welford.update: delta taken as mean - value.
WelfordUpdateDeltaReversed(w, value, weight) ==
  IF weight < SkipThreshold THEN w
  ELSE LET n1     == w.n + weight
           delta  == w.mean - value
           mean1  == w.mean + MulDiv(weight, delta, n1)
           delta2 == value - mean1
       IN  [n    |-> n1,
            mean |-> mean1,
            M2   |-> w.M2 + MulDiv(MulDiv(delta, delta2, GScale), weight, KScale)]

\* Welford.update(value, weight).  weight * delta * delta2 is taken as
\* weight * (delta * delta2): on a fixed grid the product of the two
\* deltas keeps the digits that the small weight would truncate first.
WelfordUpdate(w, value, weight) ==
  IF weight < SkipThreshold THEN w
  ELSE LET n1     == w.n + weight
           delta  == value - w.mean
           mean1  == w.mean + MulDiv(weight, delta, n1)
           delta2 == value - mean1
       IN  [n    |-> n1,
            mean |-> mean1,
            M2   |-> w.M2 + MulDiv(MulDiv(delta, delta2, GScale), weight, KScale)]

\* Welford.variance(): M2 / n if n > 0 else 0.0
variance(w) == IF w.n > 0 THEN MulDiv(w.M2, KScale, w.n) ELSE 0

\* Welford.reset()
WelfordReset(w) == FreshWelford

\* float('inf'), a finite score, and the ValueError of math.log / math.sqrt.
ScoreInf == [kind |-> "inf", val |-> 0]

ScoreVal(v) == [kind |-> "val", val |-> v]

ScoreError == [kind |-> "error", val |-> 0]

\* math.log(n) / n for n > 0, in units 1/GScale (n in units 1/KScale).
LogOverN(n) ==
  MulDiv((LnNat(n) - LnNat(KScale)) \div (LnScale \div GScale), KScale, n)

\* math.sqrt(x) for x in units 1/GScale: a ValueError for x < 0.
SqrtScore(x) ==
  IF x < 0 THEN ScoreError ELSE ScoreVal(ISqrt(x) * ISqrt(GScale))

\* Faulty variant of Welford.ucb1: the square root taken of log(n) / n
\* itself, a ValueError for 0 < n < 1.
ucb1_no_abs(w, c) ==
  IF w.n = 0 THEN ScoreInf
  ELSE IF w.n < 0 THEN ScoreError
  ELSE LET root == SqrtScore(LogOverN(w.n))
       IN  IF root.kind = "error" THEN ScoreError
           ELSE ScoreVal(w.mean + c * root.val)

\* Welford.ucb1(c): c is the exploration constant, a whole number (default 1).
ucb1(w, c) ==
  IF w.n = 0 THEN ScoreInf
  ELSE IF w.n < 0 THEN ScoreError
  ELSE LET root == SqrtScore(Abs(LogOverN(w.n)))
       IN  IF root.kind = "error" THEN ScoreError
           ELSE ScoreVal(w.mean + c * root.val)

\* Faulty variant of ScoreGreater: >= in place of >, so that a later
\* candidate with an equal score replaces the earlier one.
ScoreGreaterOrEqual(a, b) ==
  CASE a.kind = "inf" /\ b.kind = "inf" -> TRUE
    [] a.kind = "inf" /\ b.kind = "val" -> TRUE
    [] a.kind = "val" /\ b.kind = "inf" -> FALSE
    [] a.kind = "val" /\ b.kind = "val" -> a.val >= b.val
    [] OTHER -> FALSE

\* a > b on scores, as Python compares floats: inf > inf is False.
ScoreGreater(a, b) ==
  CASE a.kind = "inf" /\ b.kind = "inf" -> FALSE
    [] a.kind = "inf" /\ b.kind = "val" -> TRUE
    [] a.kind = "val" /\ b.kind = "inf" -> FALSE
    [] a.kind = "val" /\ b.kind = "val" -> a.val > b.val
    [] OTHER -> FALSE

(***************************************************************************)
(* Pump.                                                                   *)
(***************************************************************************)
\* defaultdict(lambda: defaultdict(Welford)): the value read at [key][dose].
Entry(qt, key, dose) ==
  IF <<key, dose>> \in DOMAIN qt THEN qt[<<key, dose>>] ELSE FreshWelford

\* Pump.get_key(index)
get_key(bgl, rate, insulin, food, i) ==
  <<bin_glucose(bgl[i]), bin_glucose_rate(rate[i]),
    bin_iob(iob(insulin, i)), bin_fob(fob(food, i))>>

\* Pump.get_dose(index): the recorded dose, 0 on KeyError.
get_dose(doses, i) == IF i \in DOMAIN doses THEN doses[i] ELSE 0

\* Faulty variant of bgl_penalty: the cube taken of g - 90, negative below 90.
bgl_penalty_signed(g) ==
  IF 90 * GScale <= g /\ g <= 130 * GScale THEN 0
  ELSE IF g < 90 * GScale
    THEN LET d == g - 90 * GScale
         IN  MulDiv(MulDiv(d, d, GScale), d, 20 * GScale)
    ELSE LET e == g - 130 * GScale
         IN  MulDiv(e, e, 1000 * GScale)

\* Pump.bgl_penalty(index), from the glucose value g = BGL[index].
bgl_penalty(g) ==
  IF 90 * GScale <= g /\ g <= 130 * GScale THEN 0
  ELSE IF g < 90 * GScale
    THEN LET d == 90 * GScale - g
         IN  MulDiv(MulDiv(d, d, GScale), d, 20 * GScale)
    ELSE LET e == g - 130 * GScale
         IN  MulDiv(e, e, 1000 * GScale)

\* Pump.bgl_rate_penalty(index), from the rate value r = BGL_Rate[index].
bgl_rate_penalty(r) == IF Abs(r) > 1 * GScale THEN 3 * (r - 1 * GScale) ELSE 0

\* The loop of Pump.choose_dose from candidate i on, best the dose_to_use.
RECURSIVE ChooseFrom(_, _, _, _)
ChooseFrom(qt, key, i, best) ==
  IF i > Len(DOSE_RANGE) THEN best
  ELSE LET dose == DOSE_RANGE[i]
       IN  ChooseFrom(qt, key, i + 1,
             IF ScoreGreater(ucb1(Entry(qt, key, dose), 1),
                             ucb1(Entry(qt, key, best), 1))
               THEN dose ELSE best)

\* The dose Pump.choose_dose returns for the row of key.
ChosenDose(qt, key) == ChooseFrom(qt, key, 1, DOSE_RANGE[1])

\* The policy table after choose_dose: reading self.qtable[key][dose]
\* creates the entry of every candidate of the row.
TableAfterChoose(qt, key) ==
  [p \in (DOMAIN qt) \cup {<<key, DOSE_RANGE[i]>> : i \in 1 .. Len(DOSE_RANGE)} |->
     IF p \in DOMAIN qt THEN qt[p] ELSE FreshWelford]

\* Pump.update_reward(index, weight, reward), given the key and dose it derives.
TableAfterReward(qt, key, dose, weight, reward) ==
  SetItem(qt, <<key, dose>>, WelfordUpdate(Entry(qt, key, dose), reward, weight))

\* dose_penalty of adjust_table.
dose_penalty(bgl, rate, i) == -1 * bgl_penalty(bgl[i]) - bgl_rate_penalty(rate[i])

\* The attribution threshold of adjust_table, 1e-4.
Threshold == KScale \div 10000

\* range(0, index, dose_step_size) from dose_index d on.
RECURSIVE DoseIndices(_, _, _)
DoseIndices(d, i, step) ==
  IF d >= i THEN <<>> ELSE <<d>> \o DoseIndices(d + step, i, step)

\* Whether adjust_table calls update_reward for dose_index d at tick i.
Charges(d, i) == insulin_kernel(i - d) > Threshold

\* Faulty variant of RewardCalls: the weights of one tick rescaled to sum to
\* one (the responsibility fraction of the abandoned attribution).
RewardCallsNormalized(bgl, rate, insulin, food, doses, i, step) ==
  LET ds == SelectSeq(DoseIndices(0, i, step), LAMBDA d : Charges(d, i))
      RECURSIVE Total(_)
      Total(j) == IF j > Len(ds) THEN 0 ELSE insulin_kernel(i - ds[j]) + Total(j + 1)
  IN  [j \in 1 .. Len(ds) |->
         [dose_index |-> ds[j],
          key    |-> get_key(bgl, rate, insulin, food, ds[j]),
          dose   |-> get_dose(doses, ds[j]),
          weight |-> MulDiv(insulin_kernel(i - ds[j]), KScale, Total(1)),
          reward |-> dose_penalty(bgl, rate, i)]]

\* The update_reward calls of adjust_table(index), in order: for each the
\* dose_index, the key and dose update_reward derives, the weight, the reward.
RewardCalls(bgl, rate, insulin, food, doses, i, step) ==
  LET ds == SelectSeq(DoseIndices(0, i, step), LAMBDA d : Charges(d, i))
  IN  [j \in 1 .. Len(ds) |->
         [dose_index |-> ds[j],
          key    |-> get_key(bgl, rate, insulin, food, ds[j]),
          dose   |-> get_dose(doses, ds[j]),
          weight |-> insulin_kernel(i - ds[j]),
          reward |-> dose_penalty(bgl, rate, i)]]

\* The policy table after the update_reward calls cs[j], cs[j+1], ...
RECURSIVE ApplyRewards(_, _, _)
ApplyRewards(qt, cs, j) ==
  IF j > Len(cs) THEN qt
  ELSE ApplyRewards(
         TableAfterReward(qt, cs[j].key, cs[j].dose, cs[j].weight, cs[j].reward),
         cs, j + 1)

\* The policy table after Pump.adjust_table(index).
TableAfterAdjust(qt, bgl, rate, insulin, food, doses, i, step) ==
  ApplyRewards(qt, RewardCalls(bgl, rate, insulin, food, doses, i, step), 1)

(***************************************************************************)
(* Bookkeeping read by the properties.                                     *)
(***************************************************************************)
\* Whether no arm of the row of key has been credited yet.
RowFresh(qt, key) == \A p \in DOMAIN qt : p[1] = key => qt[p].n = 0

\* selections after choose_dose returned dose for key on the table qt.
SelectionsAfter(sel, qt, key, dose) ==
  IF key \in DOMAIN sel
    THEN [sel EXCEPT ![key].doses = Append(@, dose)]
    ELSE SetItem(sel, key, [fresh |-> RowFresh(qt, key), doses |-> <<dose>>])

Call(op, t, u) == [op |-> op, t |-> t, u |-> u]

(***************************************************************************)
(* The programs beside the simulation, before anything has called them.    *)
(***************************************************************************)
\* No second Canine and Pump has been constructed.
NoTwin == [running |-> FALSE]

(***************************************************************************)
(* libre_watch.py: linear_regression_slope.  x in units 1/XScale minutes,  *)
(* y in units 1/UScale mg/dL, so the denominator n*sum_xx - sum_x*sum_x is *)
(* in units 1/XScale^2 = 1e-10 and the slope in (1/UScale mg/dL) per       *)
(* (1/XScale minute).                                                      *)
(***************************************************************************)
XScale == 10^5

\* The guard abs(denom) < 1e-9, in units 1/XScale^2.
DenomEps == 10

\* The guard of the faulty variant, abs(denom) < 1e-10.
DenomEpsTight == DenomEps \div 10

\* The sum of the terms from position i on, as the for loop accumulates it.
RECURSIVE Accumulate(_, _)
Accumulate(terms, i) ==
  IF i > Len(terms) THEN 0 ELSE terms[i] + Accumulate(terms, i + 1)

\* The frame of linear_regression_slope at its return for a guard eps:
\* the locals, whether the return statement with the division was executed,
\* and the value returned.
SlopeFrame(points, eps) ==
  LET n      == Len(points)
      sum_x  == Accumulate([i \in 1 .. n |-> points[i][1]], 1)
      sum_y  == Accumulate([i \in 1 .. n |-> points[i][2]], 1)
      sum_xx == Accumulate([i \in 1 .. n |-> points[i][1] * points[i][1]], 1)
      sum_xy == Accumulate([i \in 1 .. n |-> points[i][1] * points[i][2]], 1)
      denom  == n * sum_xx - sum_x * sum_x
  IN  IF n < 2
        THEN [pc |-> "returned", points |-> points, denom |-> 0,
              divided |-> FALSE, result |-> 0]
      ELSE IF Abs(denom) < eps
        THEN [pc |-> "returned", points |-> points, denom |-> denom,
              divided |-> FALSE, result |-> 0]
      ELSE [pc |-> "returned", points |-> points, denom |-> denom,
            divided |-> TRUE,
            result |-> Sign(denom) * MulDiv(n * sum_xy - sum_x * sum_y, 1, Abs(denom))]

\* Faulty variant of linear_regression_slope: the guard is abs(denom) < 1e-10.
linear_regression_slope_tight(points) == SlopeFrame(points, DenomEpsTight)

\* linear_regression_slope(points)
linear_regression_slope(points) == SlopeFrame(points, DenomEps)

\* No call of linear_regression_slope has been made.
RegressionIdle ==
  [pc |-> "idle", points |-> <<>>, denom |-> 0, divided |-> FALSE, result |-> 0]
(***************************************************************************)
(* libre_watch.py: AlertManager.  Times are whole minutes on the clock     *)
(* datetime.now(timezone.utc) reads; NoTime stands for None.               *)
(***************************************************************************)
NoTime == 0 - 1

\* Faulty variant of _can_fire: an alert may fire one minute before the
\* cooldown has passed.
_can_fire_early(last_, now, cooldown) ==
  IF last_ = NoTime THEN TRUE ELSE now - last_ >= cooldown - 1

\* AlertManager._can_fire(last), now the value datetime.now() returns.
_can_fire(last_, now, cooldown) ==
  IF last_ = NoTime THEN TRUE ELSE now - last_ >= cooldown

\* No AlertManager has been constructed.
AlertsIdle ==
  [pc |-> "idle", now |-> 0, cooldown |-> 0,
   _last_low |-> NoTime, _last_high |-> NoTime,
   sent_low |-> <<>>, sent_high |-> <<>>,
   request |-> [kind |-> "none", at |-> 0, fired |-> FALSE]]
(***************************************************************************)
(* feed.py: dispense.  Times are milliseconds on the clock monotonic()     *)
(* reads.                                                                  *)
(***************************************************************************)
\* MIN_CYCLE_S = 0.08 and MAX_RUN_S = 10.0, in milliseconds.
MIN_CYCLE_S == 80
MAX_RUN_S == 10000

\* monotonic() when dispense is called: the machine has been up 100 s.
Uptime == 100 * 1000

\* The motor is off and no dispense call has been made.
DispenserIdle ==
  [pc |-> "idle", motor |-> "off", clock |-> Uptime,
   portions |-> 0, done |-> 0, last_cycle_t |-> 0, pressed |-> FALSE,
   start |-> 0, polls |-> 0, result |-> "none",
   counted |-> <<>>, press_at |-> 0, ignored |-> 0]

\* Faulty variant of PollStep: every release after a press counts a cycle,
\* however soon after the last counted one.
PollStepNoMinCycle(f, now, is_pressed) ==
  IF is_pressed /\ ~f.pressed
    THEN [f EXCEPT !.pressed = TRUE, !.press_at = now]
  ELSE IF ~is_pressed /\ f.pressed
    THEN [f EXCEPT !.pressed = FALSE,
                   !.done = @ + 1,
                   !.last_cycle_t = now,
                   !.counted = Append(@, [press |-> f.press_at, release |-> now])]
  ELSE f

\* The body of the while loop of dispense below the timeout check, on the
\* frame f: now the clock read of the iteration, is_pressed the switch
\* state read.  counted, press_at and ignored are bookkeeping: the press and
\* release times of the cycles counted, the time of the press remembered,
\* and the number of releases ignored as bounce.
PollStep(f, now, is_pressed) ==
  IF is_pressed /\ ~f.pressed
    THEN [f EXCEPT !.pressed = TRUE, !.press_at = now]
  ELSE IF ~is_pressed /\ f.pressed
    THEN IF now - f.last_cycle_t >= MIN_CYCLE_S
           THEN [f EXCEPT !.pressed = FALSE,
                          !.done = @ + 1,
                          !.last_cycle_t = now,
                          !.counted = Append(@, [press |-> f.press_at,
                                                 release |-> now])]
           ELSE [f EXCEPT !.pressed = FALSE, !.ignored = @ + 1]
  ELSE f
(***************************************************************************)
(* benny_api.py: FeederController.  Times are whole minutes on the clock   *)
(* now_utc() reads; NoTime stands for None.                                *)
(***************************************************************************)
max_portions_per_feed == 4
feed_lockout_minutes == 5
rescue_lockout_minutes == 45

\* No request has been returned.
NoEvent ==
  [kind |-> "none", timestamp |-> NoTime, portions |-> 0, success |-> FALSE,
   reason |-> "none"]

\* FeederController(): the module-level feeder, and the clock.  dispensed is
\* bookkeeping: the times of the requests that called dispense.
FeederIdle ==
  [now |-> 0, requests |-> 0,
   _last_feed |-> NoEvent, _last_rescue |-> NoEvent, _lockout_until |-> NoTime,
   event |-> NoEvent, dispensed |-> <<>>]

\* The controller f is locked out at now.
LockedOut(f, now) == f._lockout_until # NoTime /\ now < f._lockout_until

\* FeedEvent(now, portions, success, reason)
FeedEvent(now, portions, success, reason) ==
  [kind |-> "feed", timestamp |-> now, portions |-> portions,
   success |-> success, reason |-> reason]

\* RescueEvent(now, success, reason)
RescueEvent(now, success, reason) ==
  [kind |-> "rescue", timestamp |-> now, portions |-> 0,
   success |-> success, reason |-> reason]

\* Faulty variant of request_feed: the lockout is set only when dispense
\* succeeded.
request_feed_lock_on_success(f, now, portions, outcome) ==
  IF portions <= 0
    THEN [f EXCEPT !.event = FeedEvent(now, portions, FALSE, "not positive")]
  ELSE IF portions > max_portions_per_feed
    THEN [f EXCEPT !.event = FeedEvent(now, portions, FALSE, "above max")]
  ELSE IF LockedOut(f, now)
    THEN [f EXCEPT !.event = FeedEvent(now, portions, FALSE, "locked out")]
  ELSE LET success == outcome = "True"
           event   == FeedEvent(now, portions, success,
                                IF success THEN "None"
                                ELSE IF outcome = "False" THEN "reported failure"
                                ELSE "exception")
       IN  [f EXCEPT !.event = event,
                     !._last_feed = event,
                     !._lockout_until =
                        IF success THEN now + feed_lockout_minutes ELSE @,
                     !.dispensed = Append(@, now)]

\* FeederController.request_feed(portions) on the controller f: now the
\* value of self._now(), outcome what dispense(portions) does if it is
\* called (returns True, returns False, raises).  The event returned is
\* left in f.event.
request_feed(f, now, portions, outcome) ==
  IF portions <= 0
    THEN [f EXCEPT !.event = FeedEvent(now, portions, FALSE, "not positive")]
  ELSE IF portions > max_portions_per_feed
    THEN [f EXCEPT !.event = FeedEvent(now, portions, FALSE, "above max")]
  ELSE IF LockedOut(f, now)
    THEN [f EXCEPT !.event = FeedEvent(now, portions, FALSE, "locked out")]
  ELSE LET success == outcome = "True"
           event   == FeedEvent(now, portions, success,
                                IF success THEN "None"
                                ELSE IF outcome = "False" THEN "reported failure"
                                ELSE "exception")
       IN  [f EXCEPT !.event = event,
                     !._last_feed = event,
                     !._lockout_until = now + feed_lockout_minutes,
                     !.dispensed = Append(@, now)]

\* FeederController.request_rescue() on the controller f.
request_rescue(f, now) ==
  IF LockedOut(f, now)
    THEN [f EXCEPT !.event = RescueEvent(now, FALSE, "locked out")]
  ELSE LET event == RescueEvent(now, TRUE, "None")
       IN  [f EXCEPT !.event = event,
                     !._last_rescue = event,
                     !._lockout_until = now + rescue_lockout_minutes]
(***************************************************************************)
(* feeder_bot.py: the slash commands /rescue and /feed.  Each command that *)
(* has arrived is a coroutine on the event loop; commands[i].pc is where   *)
(* it stands.  rescue_lock is 0 when free, else the index of the command   *)
(* holding it.                                                             *)
(***************************************************************************)
\* The bot is connected and no command has arrived.
BotIdle == [commands |-> <<>>, rescue_lock |-> 0]

DevicesIdle ==
  /\ regression = RegressionIdle
  /\ alerts = AlertsIdle
  /\ dispenser = DispenserIdle
  /\ feeder = FeederIdle
  /\ bot = BotIdle

(***************************************************************************)
(* Inputs.                                                                 *)
(***************************************************************************)
\* Canine(BGL=...), in units 1/GScale: 85 and 370 mg/dL.
InitialBGL == {85 * GScale, 370 * GScale}
\* Pump(dose_step_size=...): 10 minutes, and the default 30.
StepSizes == {10, 30}
\* Pump(dose_step_size=30, feed_step_size=6, feed_calories=1.50), the defaults.
DefaultDoseStep == 30
DefaultFeedStep == 6
DefaultFeedCalories == 150
\* dose_insulin / dose_food(administration_time, units) as called from outside
\* the loop: 20 minutes before the horizon starts, at its start, and (insulin)
\* off the dose grid.
DoseTimes == {-20, 0, 7}
DoseUnits == {50, 100}
FoodTimes == {-20, 0}
\* update(index), adjust_table(index) and choose_dose(index) as called from
\* outside the loop.
UpdateTicks == {0, 1, 2}
AdjustTicks == {30, 40}
ChooseTicks == {0, 30}

(***************************************************************************)
(* The state after Canine(BGL=bgl0) and Pump(canine, dose_step_size=step). *)
(***************************************************************************)
Constructed(bgl0, step, mode) ==
  /\ CanineInit(bgl0)
  /\ qtable = <<>>
  /\ dose_step_size = step
  /\ feed_step_size = DefaultFeedStep
  /\ feed_calories = DefaultFeedCalories
  /\ index = 0
  /\ pc = mode
  /\ stat = FreshWelford
  /\ samples = <<>>
  /\ calls = 0
  /\ last = Call("init", 0, 0)
  /\ charged = <<>>
  /\ selections = <<>>
  /\ chosen_key = <<>>
  /\ twin = NoTwin
  /\ DevicesIdle

ApiCall(op, t, u) ==
  /\ pc = "api"
  /\ calls < MaxCalls
  /\ calls' = calls + 1
  /\ last' = Call(op, t, u)
  /\ UNCHANGED <<dose_step_size, feed_step_size, feed_calories,
                 index, pc, stat, samples, twin, deviceVars>>

CallDoseInsulin ==
  \E t0 \in DoseTimes, u \in DoseUnits :
    /\ ApiCall("dose_insulin", t0, u)
    /\ dose_insulin(t0, u)
    /\ UNCHANGED <<qtable, charged, selections, chosen_key>>

CallDoseFood ==
  \E t0 \in FoodTimes :
    /\ ApiCall("dose_food", t0, feed_calories)
    /\ dose_food(t0, feed_calories)
    /\ UNCHANGED <<qtable, charged, selections, chosen_key>>

CallUpdate ==
  \E i \in UpdateTicks :
    /\ ApiCall("update", i, 0)
    /\ update(i)
    /\ UNCHANGED <<qtable, charged, selections, chosen_key>>

\* Pump.adjust_table(index)
CallAdjustTable ==
  \E i \in AdjustTicks :
    /\ ApiCall("adjust_table", i, 0)
    /\ charged' = RewardCalls(BGL, BGL_Rate, effective_insulin, effective_food,
                              insulin_doses, i, dose_step_size)
    /\ qtable' = TableAfterAdjust(qtable, BGL, BGL_Rate, effective_insulin,
                                  effective_food, insulin_doses, i, dose_step_size)
    /\ UNCHANGED <<BGL, BGL_Rate, effective_insulin, effective_food,
                   insulin_doses, selections, chosen_key>>

\* Pump.choose_dose(index)
CallChooseDose ==
  \E i \in ChooseTicks :
    LET key  == get_key(BGL, BGL_Rate, effective_insulin, effective_food, i)
        dose == ChosenDose(qtable, key)
    IN  /\ ApiCall("choose_dose", i, dose)
        /\ qtable' = TableAfterChoose(qtable, key)
        /\ selections' = SelectionsAfter(selections, qtable, key, dose)
        /\ chosen_key' = SetItem(chosen_key, i, key)
        /\ UNCHANGED <<BGL, BGL_Rate, effective_insulin, effective_food,
                       insulin_doses, charged>>

(***************************************************************************)
(* Spec: a Canine driven through dose_insulin, dose_food and update.       *)
(***************************************************************************)
Init == \E bgl0 \in InitialBGL : Constructed(bgl0, DefaultDoseStep, "api")

Next ==
  \/ CallDoseInsulin
  \/ CallDoseFood
  \/ CallUpdate

Spec == Init /\ [][Next]_vars

(***************************************************************************)
(* SpecFold: a Canine driven through dose_insulin and dose_food alone.     *)
(***************************************************************************)
InitFold == Constructed(370 * GScale, DefaultDoseStep, "api")

NextFold ==
  \/ CallDoseInsulin
  \/ CallDoseFood

SpecFold == InitFold /\ [][NextFold]_vars

(***************************************************************************)
(* SpecPump: a Canine and its Pump driven through the entry points of      *)
(* both, adjust_table and choose_dose included.                            *)
(***************************************************************************)
InitPump ==
  \E bgl0 \in InitialBGL, step \in StepSizes : Constructed(bgl0, step, "api")

NextPump ==
  \/ CallDoseInsulin
  \/ CallDoseFood
  \/ CallUpdate
  \/ CallAdjustTable
  \/ CallChooseDose

SpecPump == InitPump /\ [][NextPump]_vars

(***************************************************************************)
(* SpecTrain: Pump.train_dosing_scheme, one action per loop iteration.     *)
(***************************************************************************)
\* Faulty variant of TrainMargin: the loop runs one tick further.
TrainMarginShort == 300 - 1

\* The margin of the loop condition, index < len(self.canine.time) - 300.
TrainMargin == 300

InitTrain ==
  \E bgl0 \in InitialBGL, step \in StepSizes : Constructed(bgl0, step, "train")

\* Faulty variant of TrainTick: the dose chosen on the table as it was before
\* the tick and folded first, reward attribution run last on the folded
\* series and the extended dose record.
TrainTickChooseFirst ==
  /\ pc = "train"
  /\ index < T - TrainMargin
  /\ LET bgl1 == BGLAfterUpdate(BGL, effective_food, effective_insulin, index)
         key  == get_key(bgl1, BGL_Rate, effective_insulin, effective_food, index)
         insulin_dose_ == ChosenDose(qtable, key)
         ins1 == InsulinAfterDose(effective_insulin, index, insulin_dose_)
         rec1 == SetItem(insulin_doses, index, insulin_dose_)
         cs   == RewardCalls(bgl1, BGL_Rate, ins1, effective_food,
                             rec1, index, dose_step_size)
     IN  /\ BGL' = bgl1
         /\ IF index % dose_step_size = 0
              THEN /\ charged' = cs
                   /\ qtable' = ApplyRewards(TableAfterChoose(qtable, key), cs, 1)
                   /\ selections' = SelectionsAfter(selections, qtable, key, insulin_dose_)
                   /\ chosen_key' = SetItem(chosen_key, index, key)
                   /\ effective_insulin' = ins1
                   /\ insulin_doses' = rec1
                   /\ last' = Call("dose_tick", index, insulin_dose_)
              ELSE /\ UNCHANGED <<charged, qtable, selections, chosen_key,
                                  effective_insulin, insulin_doses>>
                   /\ last' = Call("tick", index, 0)
         /\ effective_food' =
              IF index % feed_step_size = 0
                THEN FoodAfterDose(effective_food, index, feed_calories)
                ELSE effective_food
  /\ index' = index + 1
  /\ UNCHANGED <<BGL_Rate, dose_step_size, feed_step_size, feed_calories,
                 pc, stat, samples, calls, twin, deviceVars>>

\* Faulty variant of TrainTick: choose_dose returns any of the candidates
\* that share the greatest score (as a max over an unordered collection
\* would), not the first of them.
TrainTickAnyGreatest ==
  /\ pc = "train"
  /\ index < T - TrainMargin
  /\ LET bgl1 == BGLAfterUpdate(BGL, effective_food, effective_insulin, index)
         cs   == RewardCalls(bgl1, BGL_Rate, effective_insulin, effective_food,
                             insulin_doses, index, dose_step_size)
         qt1  == ApplyRewards(qtable, cs, 1)
         key  == get_key(bgl1, BGL_Rate, effective_insulin, effective_food, index)
         tied == {DOSE_RANGE[i] : i \in
                    {j \in 1 .. Len(DOSE_RANGE) :
                       ~ScoreGreater(ucb1(Entry(qt1, key, ChosenDose(qt1, key)), 1),
                                     ucb1(Entry(qt1, key, DOSE_RANGE[j]), 1))}}
     IN  /\ BGL' = bgl1
         /\ IF index % dose_step_size = 0
              THEN \E insulin_dose_ \in tied :
                   /\ charged' = cs
                   /\ qtable' = TableAfterChoose(qt1, key)
                   /\ selections' = SelectionsAfter(selections, qt1, key, insulin_dose_)
                   /\ chosen_key' = SetItem(chosen_key, index, key)
                   /\ effective_insulin' =
                        InsulinAfterDose(effective_insulin, index, insulin_dose_)
                   /\ insulin_doses' = SetItem(insulin_doses, index, insulin_dose_)
                   /\ last' = Call("dose_tick", index, insulin_dose_)
              ELSE /\ UNCHANGED <<charged, qtable, selections, chosen_key,
                                  effective_insulin, insulin_doses>>
                   /\ last' = Call("tick", index, 0)
         /\ effective_food' =
              IF index % feed_step_size = 0
                THEN FoodAfterDose(effective_food, index, feed_calories)
                ELSE effective_food
  /\ index' = index + 1
  /\ UNCHANGED <<BGL_Rate, dose_step_size, feed_step_size, feed_calories,
                 pc, stat, samples, calls, twin, deviceVars>>

\* One iteration of the while loop of train_dosing_scheme.
TrainTick ==
  /\ pc = "train"
  /\ index < T - TrainMargin
  /\ LET bgl1 == BGLAfterUpdate(BGL, effective_food, effective_insulin, index)
         cs   == RewardCalls(bgl1, BGL_Rate, effective_insulin, effective_food,
                             insulin_doses, index, dose_step_size)
         qt1  == ApplyRewards(qtable, cs, 1)
         key  == get_key(bgl1, BGL_Rate, effective_insulin, effective_food, index)
         insulin_dose_ == ChosenDose(qt1, key)
     IN  /\ BGL' = bgl1
         /\ IF index % dose_step_size = 0
              THEN /\ charged' = cs
                   /\ qtable' = TableAfterChoose(qt1, key)
                   /\ selections' = SelectionsAfter(selections, qt1, key, insulin_dose_)
                   /\ chosen_key' = SetItem(chosen_key, index, key)
                   /\ effective_insulin' =
                        InsulinAfterDose(effective_insulin, index, insulin_dose_)
                   /\ insulin_doses' = SetItem(insulin_doses, index, insulin_dose_)
                   /\ last' = Call("dose_tick", index, insulin_dose_)
              ELSE /\ UNCHANGED <<charged, qtable, selections, chosen_key,
                                  effective_insulin, insulin_doses>>
                   /\ last' = Call("tick", index, 0)
         /\ effective_food' =
              IF index % feed_step_size = 0
                THEN FoodAfterDose(effective_food, index, feed_calories)
                ELSE effective_food
  /\ index' = index + 1
  /\ UNCHANGED <<BGL_Rate, dose_step_size, feed_step_size, feed_calories,
                 pc, stat, samples, calls, twin, deviceVars>>

\* The loop condition fails: train_dosing_scheme returns.
TrainReturn ==
  /\ pc = "train"
  /\ index >= T - TrainMargin
  /\ pc' = "done"
  /\ last' = Call("return", index, 0)
  /\ UNCHANGED <<BGL, BGL_Rate, effective_insulin, effective_food, insulin_doses,
                 qtable, dose_step_size, feed_step_size, feed_calories,
                 index, stat, samples, calls, charged, selections,
                 chosen_key, twin, deviceVars>>

NextTrain ==
  \/ TrainTick
  \/ TrainReturn

SpecTrain == InitTrain /\ [][NextTrain]_vars

\* What every step of NextTrain does to the loop's control state: the
\* iteration advances index, the return sets pc.  NextTrain is enabled
\* exactly when pc = "train".
TrainProgress ==
  /\ pc = "train"
  /\ \/ index' = index + 1 /\ pc' = pc
     \/ index' = index /\ pc' = "done"

\* SpecTrainFair: the loop is sequential code, so while it has not returned
\* its next step (an iteration or the return) is eventually taken.
SpecTrainFair == SpecTrain /\ WF_<<index, pc>>(TrainProgress)

(***************************************************************************)
(* SpecInject: insulin doses given through Canine.dose_insulin by the      *)
(* caller, then Pump.train_dosing_scheme.                                  *)
(***************************************************************************)
\* dose_insulin(administration_time, units) before training: on the dose
\* grid (0, 30) and off it (7), with a magnitude that is no candidate (0.3).
InjectTimes == {0, 7, 30}
InjectUnits == {30}

InitInject ==
  \E step \in StepSizes : Constructed(370 * GScale, step, "inject")

\* canine.dose_insulin(t0, u), called before pump.train_dosing_scheme().
InjectDose ==
  /\ pc = "inject"
  /\ calls < MaxCalls
  /\ \E t0 \in InjectTimes, u \in InjectUnits :
       /\ dose_insulin(t0, u)
       /\ last' = Call("dose_insulin", t0, u)
  /\ calls' = calls + 1
  /\ UNCHANGED <<qtable, dose_step_size, feed_step_size, feed_calories,
                 index, pc, stat, samples, charged, selections,
                 chosen_key, twin, deviceVars>>

\* pump.train_dosing_scheme() is entered: index = 0.
StartTraining ==
  /\ pc = "inject"
  /\ pc' = "train"
  /\ index' = 0
  /\ last' = Call("train_dosing_scheme", 0, 0)
  /\ UNCHANGED <<BGL, BGL_Rate, effective_insulin, effective_food, insulin_doses,
                 qtable, dose_step_size, feed_step_size, feed_calories,
                 stat, samples, calls, charged, selections,
                 chosen_key, twin, deviceVars>>

NextInject ==
  \/ InjectDose
  \/ StartTraining
  \/ TrainTick
  \/ TrainReturn

SpecInject == InitInject /\ [][NextInject]_vars

(***************************************************************************)
(* SpecChoose: choose_dose applied once to a policy table whose row for    *)
(* the state at tick 0 holds, per candidate dose, a statistic that zero or *)
(* one update_reward call leaves.                                          *)
(***************************************************************************)
\* The statistics an arm starts with: untried; one reward of -6.25 with
\* weight 1.0; one reward of -57.6 with the kernel weight at offset 30.
ArmStats ==
  {FreshWelford,
   WelfordUpdate(FreshWelford, -62500, KScale),
   WelfordUpdate(FreshWelford, -576000, 2932)}

InitChoose ==
  \E row \in [1 .. Len(DOSE_RANGE) -> ArmStats] :
    /\ CanineInit(370 * GScale)
    /\ qtable = [p \in {<<<<5, 3, 0, 0>>, DOSE_RANGE[i]>> : i \in 1 .. Len(DOSE_RANGE)} |->
                   row[CHOOSE i \in 1 .. Len(DOSE_RANGE) : DOSE_RANGE[i] = p[2]]]
    /\ dose_step_size = DefaultDoseStep
    /\ feed_step_size = DefaultFeedStep
    /\ feed_calories = DefaultFeedCalories
    /\ index = 0
    /\ pc = "api"
    /\ stat = FreshWelford
    /\ samples = <<>>
    /\ calls = 0
    /\ last = Call("init", 0, 0)
    /\ charged = <<>>
    /\ selections = <<>>
    /\ chosen_key = <<>>
    /\ twin = NoTwin
    /\ DevicesIdle

NextChoose == calls = 0 /\ CallChooseDose

SpecChoose == InitChoose /\ [][NextChoose]_vars

(***************************************************************************)
(* SpecWelford: one Welford statistic driven through update.               *)
(***************************************************************************)
\* The values passed: rewards -6.25 and -57.6 (the penalties at 85 and 370
\* mg/dL) and a positive value, in units 1/GScale.
SampleValues == {-62500, -576000, 30000}
\* The weights passed, in units 1/KScale: negative, zero, just below 1e-4,
\* exactly 1e-4, the kernel value at offset 30, and the default 1.0.
SampleWeights == {-KScale, 0, SkipThreshold - 1, SkipThreshold, 2932, KScale}

InitWelford == Constructed(370 * GScale, DefaultDoseStep, "welford")

\* stat.update(value, weight)
CallWelfordUpdate ==
  /\ pc = "welford"
  /\ Len(samples) < MaxSamples
  /\ \E v \in SampleValues, w \in SampleWeights :
       /\ stat' = WelfordUpdate(stat, v, w)
       /\ samples' = Append(samples, <<v, w>>)
       /\ last' = Call("welford_update", v, w)
  /\ UNCHANGED <<BGL, BGL_Rate, effective_insulin, effective_food, insulin_doses,
                 qtable, dose_step_size, feed_step_size, feed_calories,
                 index, pc, calls, charged, selections,
                 chosen_key, twin, deviceVars>>

NextWelford == CallWelfordUpdate

SpecWelford == InitWelford /\ [][NextWelford]_vars

(***************************************************************************)
(* SpecFeatures: the penalty functions and get_key (the four binners)     *)
(* applied to a state whose entries at tick 0 are drawn from the inputs    *)
(* below: values on, just below and just above every threshold, and values *)
(* far outside the thresholds.                                             *)
(***************************************************************************)
\* self.canine.BGL[0], in units 1/GScale.
GlucoseInputs ==
  <<-100000, 0, 599999, 600000, 799999, 800000, 850000, 890000, 895000,
    900000, 1000000, 1299999, 1300000, 1305000, 1310000, 1999999, 2000000,
    2999999, 3000000, 3700000, 3999999, 4000000, 4005000, 10000000>>

\* self.canine.BGL_Rate[0], in units 1/GScale.
RateInputs ==
  <<-50000, -30001, -30000, -29999, -20000, -15001, -15000, -10001, -10000,
    -5001, -5000, 0, 4999, 5000, 10000, 10001, 14999, 15000, 20000, 29999,
    30000, 30001, 50000, 100000>>

\* self.canine.effective_insulin[300], read by iob(0), in units 1/KScale.
IobInputs ==
  <<-1, 0, 24999, 25000, 25001, 49999, 50000, 50001, 74999, 75000, 75001,
    99999, 100000, 100001, 174999, 175000, 175001, 249999, 250000, 250001,
    300000, 10000, 60000, 200000>>

\* self.canine.effective_food[300], read by fob(0), in units 1/GScale.
FobInputs ==
  <<-10000, 0, 24999, 25000, 25001, 49999, 50000, 50001, 74999, 75000,
    75001, 99999, 100000, 100001, 149999, 150000, 150001, 199999, 200000,
    200001, 250000, 10000, 60000, 1000000>>

InitFeatures ==
  \E k \in 1 .. Len(GlucoseInputs) :
    /\ BGL = [t \in Time |-> IF t = 0 THEN GlucoseInputs[k] ELSE 0]
    /\ BGL_Rate = [t \in Time |-> IF t = 0 THEN RateInputs[k] ELSE 0]
    /\ effective_insulin = [t \in Time |-> IF t = Lookahead THEN IobInputs[k] ELSE 0]
    /\ effective_food = [t \in Time |-> IF t = Lookahead THEN FobInputs[k] ELSE 0]
    /\ insulin_doses = <<>>
    /\ qtable = <<>>
    /\ dose_step_size = DefaultDoseStep
    /\ feed_step_size = DefaultFeedStep
    /\ feed_calories = DefaultFeedCalories
    /\ index = 0
    /\ pc = "api"
    /\ stat = FreshWelford
    /\ samples = <<>>
    /\ calls = 0
    /\ last = Call("init", 0, 0)
    /\ charged = <<>>
    /\ selections = <<>>
    /\ chosen_key = <<>>
    /\ twin = NoTwin
    /\ DevicesIdle

\* pump.bgl_penalty(0)
CallBglPenalty ==
  /\ ApiCall("bgl_penalty", 0, bgl_penalty(BGL[0]))
  /\ UNCHANGED <<BGL, BGL_Rate, effective_insulin, effective_food, insulin_doses,
                 qtable, charged, selections, chosen_key>>

\* pump.bgl_rate_penalty(0)
CallBglRatePenalty ==
  /\ ApiCall("bgl_rate_penalty", 0, bgl_rate_penalty(BGL_Rate[0]))
  /\ UNCHANGED <<BGL, BGL_Rate, effective_insulin, effective_food, insulin_doses,
                 qtable, charged, selections, chosen_key>>

\* pump.get_key(0)
CallGetKey ==
  /\ ApiCall("get_key", 0,
             get_key(BGL, BGL_Rate, effective_insulin, effective_food, 0))
  /\ UNCHANGED <<BGL, BGL_Rate, effective_insulin, effective_food, insulin_doses,
                 qtable, charged, selections, chosen_key>>

NextFeatures ==
  \/ CallBglPenalty
  \/ CallBglRatePenalty
  \/ CallGetKey

SpecFeatures == InitFeatures /\ [][NextFeatures]_vars

(***************************************************************************)
(* SpecRun: Canine.run, one action per iteration of its while loop, on a   *)
(* Canine that was given no insulin and no food.                           *)
(***************************************************************************)
\* Canine(BGL=...): 370 mg/dL, and 180 and 85 mg/dL, at and below the renal
\* threshold, which glucose falling from 370 does not reach within T ticks.
RunBGL == {370 * GScale, 180 * GScale, 85 * GScale}

InitRun == \E bgl0 \in RunBGL : Constructed(bgl0, DefaultDoseStep, "run")

\* while index < len(self.time): self.update(index); index += 1
RunTick ==
  /\ pc = "run"
  /\ index < T
  /\ update(index)
  /\ index' = index + 1
  /\ last' = Call("update", index, 0)
  /\ UNCHANGED <<qtable, dose_step_size, feed_step_size, feed_calories,
                 pc, stat, samples, calls, charged, selections,
                 chosen_key, twin, deviceVars>>

\* The loop condition fails: run prints 'finished' and returns.
RunReturn ==
  /\ pc = "run"
  /\ index >= T
  /\ pc' = "done"
  /\ last' = Call("return", index, 0)
  /\ UNCHANGED <<BGL, BGL_Rate, effective_insulin, effective_food, insulin_doses,
                 qtable, dose_step_size, feed_step_size, feed_calories,
                 index, stat, samples, calls, charged, selections,
                 chosen_key, twin, deviceVars>>

NextRun ==
  \/ RunTick
  \/ RunReturn

SpecRun == InitRun /\ [][NextRun]_vars

(***************************************************************************)
(* Properties.                                                             *)
(***************************************************************************)
\* The step just taken is the entry-point call op.
Called(op) == calls' = calls + 1 /\ last'.op = op

\* C1: for every tick t with 0 < t < T, update(t) sets BGL[t] to
\* BGL[t-1] + effective_food[t-1]
\*   - step_size * BGL[t-1] * insulin_sensitivity * effective_insulin[t-1]
\*   - step_size * constant_background_use_rate
\*   - step_size * kidney_clearance_rate * max(0, BGL[t-1] - 180)
\* and writes no other entry of any time series; update(0) writes nothing,
\* so BGL[0] keeps the value given at construction.
C1_UpdateEquation ==
  [][Called("update") =>
       LET t    == last'.t
           prev == BGL[t - 1]
           uptake == MulDiv(MulDiv(step_size * prev, 62, 100),
                            effective_insulin[t - 1], KScale)
           renal  == IF prev > 180 * GScale
                       THEN (step_size * 2 * (prev - 180 * GScale)) \div 20000
                       ELSE 0
       IN  /\ t > 0 => BGL'[t] = prev + effective_food[t - 1] - uptake
                                  - step_size * 0 - renal
           /\ \A s \in Time : (s # t \/ t = 0) => BGL'[s] = BGL[s]
           /\ UNCHANGED <<BGL_Rate, effective_insulin, effective_food>>
    ]_vars

\* C1 witness: update(1) has run on a glucose above the renal threshold with
\* insulin and food active at tick 0, and wrote a different value to BGL[1].
C1_Witness ==
  /\ last.op = "update"
  /\ last.t = 1
  /\ BGL[0] > 180 * GScale
  /\ effective_insulin[0] > 0
  /\ effective_food[0] > 0
  /\ BGL[1] # BGL[0]
  /\ BGL[1] # 0

\* C2: superposition: from the same starting state, dose_insulin(t0, a) then
\* dose_insulin(t0, b) leaves effective_insulin equal, entry by entry and up
\* to tolerance, to the series the single call dose_insulin(t0, a + b) leaves.
\* The tolerance is one unit of 1/KScale, the difference that truncating two
\* products instead of one leaves.
C2_Superposition ==
  \A t0 \in DoseTimes, a \in DoseUnits, b \in DoseUnits :
    LET twice == InsulinAfterDose(InsulinAfterDose(effective_insulin, t0, a), t0, b)
        once  == InsulinAfterDose(effective_insulin, t0, a + b)
    IN  \A t \in Time : Abs(twice[t] - once[t]) <= 1

\* C2 witness: two doses have been folded at the same administration time,
\* and the series they left is nonzero and within tolerance of the single
\* dose of their sum.
C2_Witness ==
  /\ calls = 2
  /\ last.op = "dose_insulin"
  /\ \E a \in DoseUnits :
       /\ effective_insulin =
            InsulinAfterDose(InsulinAfterDose(Zeros, last.t, a), last.t, last.u)
       /\ \A t \in Time :
            Abs(effective_insulin[t]
                - InsulinAfterDose(Zeros, last.t, a + last.u)[t]) <= 1
       /\ \E t \in Time : effective_insulin[t] > insulin_dose(last.t, last.u)[t]

\* C3: a dose is an additive, causal fold: dose_insulin(t0, u) adds
\* u * kernel(t - t0) to the previous effective_insulin[t] for every t >= t0,
\* leaves effective_insulin[t] unchanged for t < t0, and leaves BGL and
\* effective_food unchanged; dose_food(t0, c) does the same on effective_food
\* with the extra factor food_sensitivity and leaves BGL and
\* effective_insulin unchanged.
C3_AdditiveCausalFold ==
  [][/\ Called("dose_insulin") =>
          /\ \A t \in Time :
               effective_insulin'[t] =
                 IF t >= last'.t
                   THEN effective_insulin[t]
                        + (last'.u * (GammaPdf(t - last'.t, 3, 105)
                                      + GammaPdf(t - last'.t, 5, 120))) \div UScale
                   ELSE effective_insulin[t]
          /\ UNCHANGED <<BGL, effective_food>>
     /\ Called("dose_food") =>
          /\ \A t \in Time :
               effective_food'[t] =
                 IF t >= last'.t
                   THEN effective_food[t]
                        + (8 * last'.u * (GammaPdf(t - last'.t, 4, 22)
                                          + GammaPdf(t - last'.t, 7, 24)))
                            \div ((UScale * KScale) \div GScale)
                   ELSE effective_food[t]
          /\ UNCHANGED <<BGL, effective_insulin>>
    ]_vars

\* C3 witness: a dose given at tick 7 was folded onto a series that an
\* earlier dose had already made nonzero before and after tick 7.
C3_Witness ==
  /\ last.op = "dose_insulin"
  /\ last.t = 7
  /\ effective_insulin[3] > 0
  /\ effective_insulin[3] = insulin_dose(0, 100)[3]
  /\ effective_insulin[100] = insulin_dose(0, 100)[100] + insulin_dose(7, last.u)[100]

\* C4: at an evaluation tick t, adjust_table charges the reward to the arm of
\* every insulin dose that was issued at an earlier tick t_d < t and whose
\* insulin-kernel value at offset t - t_d is strictly greater than 1e-4, and
\* to no other dose; doses issued through dose_insulin off the dose grid are
\* included, and a dose whose kernel value is 1e-4 or less gets no update.
C4_ChargesEveryActiveDose ==
  last.op = "adjust_table" =>
    LET t == last.t
        active == {td \in DOMAIN insulin_doses :
                     td < t /\ insulin_kernel(t - td) > KScale \div 10000}
    IN  /\ \A td \in active :
             \E j \in DOMAIN charged :
               charged[j].dose_index = td /\ charged[j].dose = insulin_doses[td]
        /\ \A j \in DOMAIN charged : charged[j].dose_index \in active

\* The total weight the update_reward calls cs[j], cs[j+1], ... give entry p.
RECURSIVE WeightTo(_, _, _)
WeightTo(cs, p, j) ==
  IF j > Len(cs) THEN 0
  ELSE (IF <<cs[j].key, cs[j].dose>> = p THEN cs[j].weight ELSE 0)
       + WeightTo(cs, p, j + 1)

\* C5: attribution is unnormalized: at tick t every charged dose issued at
\* t_d receives the same full reward -(bgl_penalty(t) + bgl_rate_penalty(t))
\* with weight exactly insulin_kernel(t - t_d), the unit-magnitude curve that
\* dose_insulin folds into effective_insulin; the weight depends neither on
\* the dose magnitude nor on the other active doses, and the weights of one
\* tick are not rescaled to sum to one: the count n of every arm grows by
\* exactly the kernel values charged to it.
C5_UnnormalizedAttribution ==
  [][Called("adjust_table") =>
       LET t == last'.t
           reward == -(bgl_penalty(BGL[t]) + bgl_rate_penalty(BGL_Rate[t]))
       IN  /\ \A j \in DOMAIN charged' :
                /\ charged'[j].reward = reward
                /\ charged'[j].weight =
                     insulin_dose(charged'[j].dose_index, UScale)[t]
           /\ \A p \in DOMAIN qtable' :
                qtable'[p].n = Entry(qtable, p[1], p[2]).n + WeightTo(charged', p, 1)
    ]_vars

\* C5 witness: adjust_table charged at least two doses, one of them a dose of
\* nonzero magnitude, with different weights that do not sum to one, and a
\* nonzero reward.
C5_Witness ==
  /\ last.op = "adjust_table"
  /\ Len(charged) >= 2
  /\ charged[1].weight # charged[2].weight
  /\ charged[1].weight + charged[2].weight < KScale
  /\ charged[1].reward < 0
  /\ \E j \in DOMAIN charged : charged[j].dose > 0

\* C6: UCB exploration priority: for a state key whose policy-table row is
\* fresh, the first k selections made for that state (k the number of
\* candidates) return every candidate exactly once, in DOSE_RANGE order,
\* before any candidate is returned a second time.
C6_FreshRowVisitsInOrder ==
  \A key \in DOMAIN selections :
    selections[key].fresh =>
      \A j \in 1 .. Len(selections[key].doses) :
        j <= Len(DOSE_RANGE) => selections[key].doses[j] = DOSE_RANGE[j]

\* The order of scores: inf above every finite score, finite scores by value.
Higher(a, b) ==
  \/ a.kind = "inf" /\ b.kind = "val"
  \/ a.kind = "val" /\ b.kind = "val" /\ a.val > b.val

\* C7: choose_dose returns the candidate of DOSE_RANGE whose UCB score in the
\* current state's row is greatest, and among candidates with equal greatest
\* score the one that comes first in DOSE_RANGE order; when every arm of the
\* row is untried it returns DOSE_RANGE[0].
C7_ChooseDoseFirstGreatest ==
  last.op = "choose_dose" =>
    LET key == get_key(BGL, BGL_Rate, effective_insulin, effective_food, last.t)
        Cand == 1 .. Len(DOSE_RANGE)
        score(i) == ucb1(Entry(qtable, key, DOSE_RANGE[i]), 1)
    IN  /\ \E i \in Cand :
             /\ last.u = DOSE_RANGE[i]
             /\ \A j \in Cand : ~Higher(score(j), score(i))
             /\ \A j \in Cand : j < i => Higher(score(i), score(j))
        /\ (\A j \in Cand : Entry(qtable, key, DOSE_RANGE[j]).n = 0)
             => last.u = DOSE_RANGE[1]

\* C7 witness: choose_dose ran on a row whose arms have all been tried, and
\* returned a candidate other than the first whose score a later candidate
\* equals.
C7_Witness ==
  /\ last.op = "choose_dose"
  /\ last.t = 0
  /\ \A i \in 1 .. Len(DOSE_RANGE) : qtable[<<<<5, 3, 0, 0>>, DOSE_RANGE[i]>>].n > 0
  /\ last.u = DOSE_RANGE[2]
  /\ \E i \in 3 .. Len(DOSE_RANGE) :
       ucb1(qtable[<<<<5, 3, 0, 0>>, DOSE_RANGE[i]>>], 1)
         = ucb1(qtable[<<<<5, 3, 0, 0>>, DOSE_RANGE[2]>>], 1)

\* C8: ucb1 returns +inf exactly when n == 0; for every n > 0, weighted
\* counts 0 < n < 1 included, it returns mean + c * sqrt(|ln(n) / n|) without
\* a domain error, the absolute value keeping the radicand non-negative; and
\* variance returns 0 when n == 0.
C8_Ucb1Score ==
  \A c \in {1, 2} :
    LET score == ucb1(stat, c)
    IN  /\ (score.kind = "inf") <=> (stat.n = 0)
        /\ stat.n > 0 =>
             /\ score.kind = "val"
             /\ Abs(LogOverN(stat.n)) >= 0
             /\ score.val = stat.mean + c * ISqrt(Abs(LogOverN(stat.n))) * ISqrt(GScale)
        /\ stat.n = 0 => variance(stat) = 0

\* C8 witness: a statistic with 0 < n < 1, where ln(n) / n is negative, has
\* been built by update and scored by ucb1.
C8_Witness ==
  /\ samples # <<>>
  /\ stat.n > 0
  /\ stat.n < KScale
  /\ LogOverN(stat.n) < 0
  /\ ucb1(stat, 1).kind = "val"

\* The (value, weight) pairs of ps whose weight is at least 1e-4.
KeptSamples(ps) == SelectSeq(ps, LAMBDA p : p[2] >= KScale \div 10000)

\* The sum over ps[j], ps[j+1], ... of the weights.
RECURSIVE SumWeights(_, _)
SumWeights(ps, j) == IF j > Len(ps) THEN 0 ELSE ps[j][2] + SumWeights(ps, j + 1)

\* The weighted mean of ps from j on: sum of weight * value / n.
RECURSIVE WeightedMean(_, _, _)
WeightedMean(ps, n, j) ==
  IF j > Len(ps) THEN 0
  ELSE MulDiv(ps[j][2], ps[j][1], n) + WeightedMean(ps, n, j + 1)

\* The weighted sum of squared deviations from mu of ps from j on.
RECURSIVE WeightedSquares(_, _, _)
WeightedSquares(ps, mu, j) ==
  IF j > Len(ps) THEN 0
  ELSE MulDiv(MulDiv(ps[j][1] - mu, ps[j][1] - mu, GScale), ps[j][2], KScale)
       + WeightedSquares(ps, mu, j + 1)

\* C9: after any sequence of update(value, weight) calls, over the calls with
\* weight >= 1e-4: n equals the sum of the weights, mean equals the weighted
\* mean sum(w * v) / sum(w), and M2 equals n times the weighted population
\* variance, sum(w * (v - mean)^2).  On the fixed-point grid every update
\* truncates the mean by at most one unit, which the product delta * delta2
\* magnifies by |delta| < 64; the sums are compared to that accuracy.
C9_WelfordWeightedMoments ==
  LET kept == KeptSamples(samples)
      k    == Len(kept)
      n    == SumWeights(kept, 1)
      mu   == WeightedMean(kept, n, 1)
  IN  /\ stat.n = n
      /\ k > 0 =>
           /\ Abs(stat.mean - mu) <= 2 * k
           /\ Abs(stat.M2 - WeightedSquares(kept, mu, 1)) <= 64 * k
           /\ Abs(stat.M2 - WeightedSquares(kept, stat.mean, 1)) <= 64 * k

\* C9 witness: three updates, one of them skipped, the two kept ones with
\* different values and different weights, so that the weighted mean differs
\* from the plain mean and M2 is positive.
C9_Witness ==
  /\ Len(samples) = 3
  /\ Len(KeptSamples(samples)) = 2
  /\ KeptSamples(samples)[1][1] # KeptSamples(samples)[2][1]
  /\ KeptSamples(samples)[1][2] # KeptSamples(samples)[2][2]
  /\ stat.M2 > 0
  /\ 2 * stat.mean # KeptSamples(samples)[1][1] + KeptSamples(samples)[2][1]

\* C10: update(value, weight) with weight < 1e-4, a weight of 0 or a
\* negative weight included, leaves n, mean and M2 unchanged.
C10_SmallWeightSkipped ==
  [][(Len(samples') = Len(samples) + 1 /\ last'.op = "welford_update"
        /\ last'.u < KScale \div 10000)
       => (stat'.n = stat.n /\ stat'.mean = stat.mean /\ stat'.M2 = stat.M2)
    ]_vars

\* C10 witness: a statistic holding one sample was then updated with a weight
\* just below 1e-4 and with a weight of zero or less.
C10_Witness ==
  /\ Len(samples) = 3
  /\ samples[1][2] >= KScale \div 10000
  /\ samples[2][2] = KScale \div 10000 - 1
  /\ samples[3][2] <= 0
  /\ stat.n = samples[1][2]
  /\ stat.mean = samples[1][1]

\* C11: level penalty shape: bgl_penalty is exactly 0 for every glucose value
\* in the closed band 90..130, strictly positive for every value below 90 or
\* above 130, strictly larger for a larger deficit below 90 (at 80 larger
\* than at 85) and strictly larger for a larger excess above 130.
C11_LevelPenaltyShape ==
  last.op = "bgl_penalty" =>
    LET g == BGL[last.t]
        p == last.u
    IN  /\ (90 * GScale <= g /\ g <= 130 * GScale) => p = 0
        /\ (g < 90 * GScale \/ g > 130 * GScale) => p > 0
        /\ \A k \in DOMAIN GlucoseInputs :
             LET h == GlucoseInputs[k]
             IN  /\ (h < g /\ g < 90 * GScale) => bgl_penalty(h) > p
                 /\ (h > g /\ g > 130 * GScale) => bgl_penalty(h) > p

\* C11 witness: bgl_penalty was called at glucose 80 and returned a positive
\* value larger than the one at 85.
C11_Witness ==
  /\ last.op = "bgl_penalty"
  /\ BGL[0] = 80 * GScale
  /\ last.u > 0
  /\ last.u > bgl_penalty(85 * GScale)
  /\ bgl_penalty(85 * GScale) > 0

\* C12: rate penalty: for every glucose-rate value r, bgl_rate_penalty is 0
\* when |r| <= 1 and, when |r| > 1, a positive constant times the excess
\* |r| - 1; it is never negative, for falling glucose (r < -1) as well as
\* for rising glucose (r > 1).
C12_RatePenaltyNonNegative ==
  last.op = "bgl_rate_penalty" =>
    LET r == BGL_Rate[last.t]
    IN  /\ Abs(r) <= GScale => last.u = 0
        /\ Abs(r) > GScale => \E c \in 1 .. 10 : last.u = c * (Abs(r) - GScale)
        /\ last.u >= 0

\* The number of thresholds of th that are at most v: the bin of v when the
\* boundaries are half-open.
BinsAtOrBelow(v, th) == Cardinality({i \in DOMAIN th : th[i] <= v})

\* C13: each of bin_glucose, bin_glucose_rate, bin_iob and bin_fob is total
\* and monotone: every input returns exactly one bin index in 0..6, a larger
\* input never returns a smaller index, and a value exactly equal to a
\* threshold falls in the bin above it (value < threshold selects the lower
\* bin).
C13_BinnersTotalMonotone ==
  last.op = "get_key" =>
    LET g == BGL[last.t]
        r == BGL_Rate[last.t]
        i == effective_insulin[last.t + 300]
        f == effective_food[last.t + 300]
    IN  /\ \A j \in 1 .. 4 : last.u[j] \in 0 .. 6
        /\ last.u[1] = BinsAtOrBelow(g, <<600000, 800000, 1300000,
                                          2000000, 3000000, 4000000>>)
        /\ last.u[2] = BinsAtOrBelow(r, <<-30000, -15000, -5000,
                                          5000, 15000, 30000>>)
        /\ last.u[3] = BinsAtOrBelow(i, <<25000, 50000, 75000,
                                          100000, 175000, 250000>>)
        /\ last.u[4] = BinsAtOrBelow(f, <<25000, 50000, 75000,
                                          100000, 150000, 200000>>)
        /\ \A k \in DOMAIN GlucoseInputs :
             /\ GlucoseInputs[k] >= g => bin_glucose(GlucoseInputs[k]) >= last.u[1]
             /\ RateInputs[k] >= r => bin_glucose_rate(RateInputs[k]) >= last.u[2]
             /\ IobInputs[k] >= i => bin_iob(IobInputs[k]) >= last.u[3]
             /\ FobInputs[k] >= f => bin_fob(FobInputs[k]) >= last.u[4]

\* C13 witness: get_key was called on a state whose glucose is exactly the
\* threshold 130 and returned the bin above it.
C13_Witness ==
  /\ last.op = "get_key"
  /\ BGL[0] = 130 * GScale
  /\ last.u[1] = 3
  /\ bin_glucose(130 * GScale - 1) = 2

\* C14: end-to-end scenario: starting from BGL[0] = 370 (and likewise from a
\* start at or below 180) with no insulin dose, no food dose and background
\* use 0, stepping update(t) for t = 1..T-1 gives, for every t stepped,
\* BGL[t] <= BGL[t-1] whenever BGL[t-1] > 180, BGL[t] = BGL[t-1] whenever
\* BGL[t-1] <= 180, and BGL[t] >= 0.
C14_ZeroInputDecay ==
  pc \in {"run", "done"} =>
    \A t \in Time :
      (0 < t /\ t < index) =>
        /\ BGL[t - 1] > 180 * GScale => BGL[t] <= BGL[t - 1]
        /\ BGL[t - 1] <= 180 * GScale => BGL[t] = BGL[t - 1]
        /\ BGL[t] >= 0

\* C14 witness: run has returned on the Canine started at 370; glucose fell
\* at the first step, kept falling to the last tick and is still above 180.
C14_Witness ==
  /\ pc = "done"
  /\ index = T
  /\ BGL[0] = 370 * GScale
  /\ effective_insulin = Zeros
  /\ effective_food = Zeros
  /\ BGL[1] < BGL[0]
  /\ BGL[T - 1] < BGL[T - 2]
  /\ BGL[T - 1] > 180 * GScale

\* C15: index violations fail fast: update(t) and dose_insulin(t0, u) /
\* dose_food(t0, c) called with a time index outside [0, T) are rejected with
\* an error and leave every time series and the dose record unchanged; none
\* of them silently wraps, clamps or accepts the index.
C15_OutOfRangeRejected ==
  [][((Called("dose_insulin") \/ Called("dose_food") \/ Called("update"))
        /\ last'.t \notin Time)
       => UNCHANGED <<BGL, BGL_Rate, effective_insulin, effective_food,
                      insulin_doses>>
    ]_vars

\* C16: dose events are immutable and never deleted: once dose_insulin(t0, u)
\* has recorded the event (t0, u), after any later operation, a second
\* dose_insulin call with the same t0 included, the record still holds an
\* event at t0 with magnitude u.
C16_DoseEventsImmutable ==
  [][\A t0 \in DOMAIN insulin_doses :
       t0 \in DOMAIN insulin_doses' /\ insulin_doses'[t0] = insulin_doses[t0]
    ]_vars

\* The step just taken is the iteration of the training loop for a dosing tick.
DosingTick == pc = "train" /\ index' = index + 1 /\ last'.op = "dose_tick"

\* C17 as stated: at every dosing tick t the loop steps the simulator, then
\* chooses the dose, then folds it, and only then runs reward attribution;
\* the selection at tick t does not use statistics updated from tick t's
\* penalty: it is the choice on the policy table as it was before the tick.
C17_SelectionBeforeAttribution ==
  [][DosingTick =>
       last'.u = ChosenDose(qtable, get_key(BGL', BGL_Rate, effective_insulin,
                                            effective_food, index))
    ]_vars

\* C17 amended: at every dosing tick t the loop first steps the simulator
\* (BGL[t] is written), then runs reward attribution for tick t's penalty
\* over the doses recorded before t, on the series as they are before tick
\* t's dose is folded, then chooses the dose on the table so updated, and
\* only then folds the dose and records it; the selection at tick t uses the
\* statistics already updated from tick t's penalty.
C17_AttributionBeforeSelection ==
  [][DosingTick =>
       LET t   == index
           key == get_key(BGL', BGL_Rate, effective_insulin, effective_food, t)
       IN  /\ BGL' = BGLAfterUpdate(BGL, effective_food, effective_insulin, t)
           /\ charged' = RewardCalls(BGL', BGL_Rate, effective_insulin,
                                     effective_food, insulin_doses, t, dose_step_size)
           /\ \A j \in DOMAIN charged' : charged'[j].dose_index < t
           /\ \A p \in DOMAIN qtable' :
                qtable'[p].n = Entry(qtable, p[1], p[2]).n + WeightTo(charged', p, 1)
           /\ last'.u = ChosenDose(qtable', key)
           /\ effective_insulin' = InsulinAfterDose(effective_insulin, t, last'.u)
           /\ insulin_doses' = SetItem(insulin_doses, t, last'.u)
    ]_vars

\* C17 witness: a dosing tick after the first whose attribution gave the arm
\* of the first candidate of the selected row its only credit, and whose
\* selection, made on that credit, is the second candidate.
C17_Witness ==
  /\ last.op = "dose_tick"
  /\ last.t > 0
  /\ Len(charged) = 1
  /\ charged[1].dose = DOSE_RANGE[1]
  /\ qtable[<<charged[1].key, DOSE_RANGE[1]>>].n = charged[1].weight
  /\ charged[1].key \in DOMAIN selections
  /\ selections[charged[1].key].doses = <<DOSE_RANGE[1], DOSE_RANGE[2]>>
  /\ last.u = DOSE_RANGE[2]

C19_TrainTerminates ==
  /\ <>(pc = "done")
  /\ [][/\ (pc = "train" /\ index' # index)
            => (index' = index + 1 /\ last'.t = index)
        /\ (pc = "train" /\ pc' = "done")
            => (index' = index /\ index = Max(0, T - 300))
        /\ \A t \in Time : (t >= T - 300 /\ t > 0) => BGL'[t] = 0
        /\ \A h \in 0 .. 300 : ~(0 < h - TrainMargin)
     ]_vars

\* C19 witness: train_dosing_scheme has returned after the tick T - 301, with
\* every tick up to it simulated and none after it.
C19_Witness ==
  /\ pc = "done"
  /\ index = T - 300
  /\ last.op = "return"
  /\ \A t \in Time : t < T - 300 => BGL[t] > 0
  /\ \A t \in Time : t >= T - 300 => BGL[t] = 0

\* C20: in every state reached by train_dosing_scheme, every dose key present
\* in any row of the policy table is a member of the fixed candidate set
\* DOSE_RANGE, even when insulin doses with other magnitudes were injected
\* through dose_insulin before training started.
C20_TableDosesAreCandidates ==
  \A p \in DOMAIN qtable : \E i \in DOMAIN DOSE_RANGE : p[2] = DOSE_RANGE[i]

\* The effect at tick t of the doses the record holds at the times ts.
RECURSIVE RecordedEffect(_, _)
RecordedEffect(ts, t) ==
  IF ts = {} THEN 0
  ELSE LET t0 == CHOOSE x \in ts : TRUE
       IN  insulin_dose(t0, insulin_doses[t0])[t] + RecordedEffect(ts \ {t0}, t)

\* C20 witness: training has returned after doses of magnitude 0.3 were
\* injected: one off the dose grid is still in the record, one on the grid
\* was replaced in the record by the dose training chose there (its effect
\* is in effective_insulin but not in the record), and the policy table
\* holds credited arms.
C20_Witness ==
  /\ pc = "done"
  /\ 7 \in DOMAIN insulin_doses
  /\ insulin_doses[7] = 30
  /\ effective_insulin[T - 1] > RecordedEffect(DOMAIN insulin_doses, T - 1) + 30
  /\ \E p \in DOMAIN qtable : qtable[p].n > 0

\* C23 (as stated): every update_reward call credits the dose under the key
\* choose_dose derived for it: the key re-derived for tick t_d at a later
\* attribution tick equals the key derived when the dose was chosen.
C23_CreditedUnderChosenKey ==
  \A j \in DOMAIN charged :
    charged[j].dose_index \in DOMAIN chosen_key
      => charged[j].key = chosen_key[charged[j].dose_index]

\* C24: no operation writes the glucose-rate series: in every state reached
\* through dose_insulin and train_dosing_scheme (its update and dose_food
\* included) BGL_Rate[t] = 0 for every t, so the glucose-rate component of
\* every state key (derived at any tick, chosen under, credited under, or
\* held by the policy table) is the centre bin 3, and bgl_rate_penalty is 0
\* at every tick.
C24_RateNeverWritten ==
  /\ \A t \in Time : BGL_Rate[t] = 0
  /\ \A t \in Time : bgl_rate_penalty(BGL_Rate[t]) = 0
  /\ \A t \in 0 .. T - Lookahead - 1 :
       get_key(BGL, BGL_Rate, effective_insulin, effective_food, t)[2] = 3
  /\ \A p \in DOMAIN qtable : p[1][2] = 3
  /\ \A t \in DOMAIN chosen_key : chosen_key[t][2] = 3
  /\ \A j \in DOMAIN charged : charged[j].key[2] = 3

\* C24 witness: training has returned after an injected dose; glucose was
\* simulated, insulin and food were folded, and the table holds rewards.
C24_Witness ==
  /\ pc = "done"
  /\ calls > 0
  /\ BGL[T - TrainMargin - 1] > 0
  /\ BGL[T - TrainMargin - 1] # BGL[0]
  /\ effective_insulin[Lookahead] > 0
  /\ effective_food[Lookahead] > 0
  /\ \E p \in DOMAIN qtable : qtable[p].n > 0

\* C25: inputs of a simulated tick are final in the training loop: the
\* iteration of tick t, which begins with update(t), and every later
\* iteration leave effective_insulin[s] and effective_food[s] unchanged for
\* every s <= t - 1; and when the loop has ended every simulated BGL[t],
\* 1 <= t < T - 300, satisfies the glucose balance equation against the final
\* effect series.
C25_TickInputsFinal ==
  /\ [][pc = "train" /\ index' = index + 1
          => \A s \in 0 .. index - 1 :
               /\ effective_insulin'[s] = effective_insulin[s]
               /\ effective_food'[s] = effective_food[s]]_vars
  /\ [](pc = "done"
          => \A t \in 1 .. T - TrainMargin - 1 :
               BGL[t] = UpdateValue(BGL, effective_food, effective_insulin, t))

\* C25 witness: the loop has ended after it gave non-zero insulin doses and
\* food at ticks later than simulated ticks, and the slots read by update are
\* non-zero.
C25_Witness ==
  /\ pc = "done"
  /\ \E t \in DOMAIN insulin_doses : t >= 20 /\ insulin_doses[t] > 0
  /\ effective_insulin[T - TrainMargin - 2] > 0
  /\ effective_food[T - TrainMargin - 2] > 0
  /\ BGL[T - TrainMargin - 1] # BGL[T - TrainMargin - 2]

\* C26: after any sequence of Welford.update calls (skipped ones included) on
\* a fresh statistic, n >= 0, n is either 0 or at least 1e-4, M2 >= 0 and
\* variance() is not negative; and no call decreases n.
C26_WelfordNonNegative ==
  /\ [](/\ stat.n >= 0
        /\ (stat.n = 0 \/ stat.n >= SkipThreshold)
        /\ stat.M2 >= 0
        /\ variance(stat) >= 0)
  /\ [][stat'.n >= stat.n]_vars

\* C26 witness: three calls were made, one with a negative weight (skipped)
\* and two applied with different values; M2 is positive.
C26_Witness ==
  /\ Len(samples) = 3
  /\ \E i \in 1 .. 3 : samples[i][2] < 0
  /\ \E i, j \in 1 .. 3 :
       /\ samples[i][2] >= SkipThreshold
       /\ samples[j][2] >= SkipThreshold
       /\ samples[i][1] # samples[j][1]
  /\ stat.n > 0
  /\ stat.M2 > 0

(***************************************************************************)
(* SpecTwin: two runs of Pump.train_dosing_scheme stepped side by side.    *)
(* The first run is the Canine and Pump of the state, the second a Canine  *)
(* and Pump constructed with the same arguments and held by twin.          *)
(***************************************************************************)
\* Canine(BGL=bgl0) and Pump(canine, dose_step_size=step, feed_step_size=fs,
\* feed_calories=fc) as constructed, with the loop variable of
\* train_dosing_scheme at 0.
TwinConstructed(bgl0, step, fs, fc) ==
  [running           |-> TRUE,
   index             |-> 0,
   BGL               |-> [t \in Time |-> IF t = 0 THEN bgl0 ELSE 0],
   BGL_Rate          |-> Zeros,
   effective_insulin |-> Zeros,
   effective_food    |-> Zeros,
   insulin_doses     |-> <<>>,
   qtable            |-> <<>>,
   dose_step_size    |-> step,
   feed_step_size    |-> fs,
   feed_calories     |-> fc]

\* One iteration of the while loop of train_dosing_scheme on the Canine and
\* Pump held by r.
TrainStep(r) ==
  LET bgl1 == BGLAfterUpdate(r.BGL, r.effective_food, r.effective_insulin, r.index)
      cs   == RewardCalls(bgl1, r.BGL_Rate, r.effective_insulin, r.effective_food,
                          r.insulin_doses, r.index, r.dose_step_size)
      qt1  == ApplyRewards(r.qtable, cs, 1)
      key  == get_key(bgl1, r.BGL_Rate, r.effective_insulin, r.effective_food,
                      r.index)
      insulin_dose_ == ChosenDose(qt1, key)
      dosing  == r.index % r.dose_step_size = 0
      feeding == r.index % r.feed_step_size = 0
  IN  [r EXCEPT
         !.BGL = bgl1,
         !.qtable = IF dosing THEN TableAfterChoose(qt1, key) ELSE @,
         !.effective_insulin =
            IF dosing THEN InsulinAfterDose(@, r.index, insulin_dose_) ELSE @,
         !.insulin_doses =
            IF dosing THEN SetItem(@, r.index, insulin_dose_) ELSE @,
         !.effective_food =
            IF feeding THEN FoodAfterDose(@, r.index, r.feed_calories) ELSE @,
         !.index = @ + 1]

\* The second Canine and Pump are constructed with the arguments of the first.
StartTwin ==
  /\ pc = "train"
  /\ index = 0
  /\ ~twin.running
  /\ twin' = TwinConstructed(BGL[0], dose_step_size, feed_step_size, feed_calories)
  /\ UNCHANGED <<BGL, BGL_Rate, effective_insulin, effective_food, insulin_doses,
                 qtable, dose_step_size, feed_step_size, feed_calories,
                 index, pc, stat, samples, calls, last, charged, selections,
                 chosen_key, deviceVars>>

\* An iteration of the first run, when it is not ahead of the second.
FirstTick ==
  /\ twin.running
  /\ index <= twin.index
  /\ TrainTick

\* An iteration of the second run, when it is not ahead of the first.
TwinTick ==
  /\ twin.running
  /\ twin.index <= index
  /\ twin.index < T - TrainMargin
  /\ twin' = TrainStep(twin)
  /\ UNCHANGED <<BGL, BGL_Rate, effective_insulin, effective_food, insulin_doses,
                 qtable, dose_step_size, feed_step_size, feed_calories,
                 index, pc, stat, samples, calls, last, charged, selections,
                 chosen_key, deviceVars>>

NextTwin ==
  \/ StartTwin
  \/ FirstTick
  \/ TwinTick
  \/ TrainReturn

SpecTwin == InitTrain /\ [][NextTwin]_vars

PointXs == {0, -1, -3, -4, -1000}
\* y of a point: 100 and 120 mg/dL.
PointYs == {100 * UScale, 120 * UScale}

PointLists ==
  UNION {[1 .. n -> PointXs \X PointYs] : n \in 0 .. MaxPoints}

InitSlope == Constructed(370 * GScale, DefaultDoseStep, "watch")

\* linear_regression_slope(points)
CallSlope ==
  /\ regression.pc = "idle"
  /\ \E points \in PointLists : regression' = linear_regression_slope(points)
  /\ UNCHANGED <<simVars, alerts, dispenser, feeder, bot>>

NextSlope == CallSlope

SpecSlope == InitSlope /\ [][NextSlope]_vars

\* The sum of term[i] over the positions in S.
RECURSIVE SumOver(_, _)
SumOver(term, S) ==
  IF S = {} THEN 0
  ELSE LET i == CHOOSE i \in S : TRUE
       IN  term[i] + SumOver(term, S \ {i})

LeastSquaresDenominator(points) ==
  LET I  == DOMAIN points
      sx == SumOver([i \in I |-> points[i][1]], I)
  IN  Len(points) * SumOver([i \in I |-> points[i][1] * points[i][1]], I) - sx * sx

LeastSquaresNumerator(points) ==
  LET I == DOMAIN points
  IN  Len(points) * SumOver([i \in I |-> points[i][1] * points[i][2]], I)
      - SumOver([i \in I |-> points[i][1]], I) * SumOver([i \in I |-> points[i][2]], I)

\* C22: linear_regression_slope returns exactly 0 when it is given fewer
\* than two points or when the least-squares denominator
\* n*sum(x*x) - sum(x)^2 has absolute value below 1e-9 (all x equal, for
\* example), and without dividing; in every other case it returns
\* (n*sum(x*y) - sum(x)*sum(y)) / denominator, so it never divides by a
\* denominator of absolute value below 1e-9.
C22_SlopeGuarded ==
  regression.pc = "returned" =>
    LET points == regression.points
        D == LeastSquaresDenominator(points)
        N == LeastSquaresNumerator(points)
    IN  /\ (Len(points) < 2 \/ Abs(D) < 10)
             => regression.result = 0 /\ ~regression.divided
        /\ (Len(points) >= 2 /\ Abs(D) >= 10)
             => /\ regression.divided
                /\ regression.denom = D
                /\ regression.result * D <= N + Abs(D) - 1
                /\ regression.result * D >= N - Abs(D) + 1
        /\ regression.divided => Abs(regression.denom) >= 10

\* C22 witness: a call with three points of distinct x whose denominator is
\* positive and below 1e-9 has returned 0 although the points rise.
C22_Witness ==
  /\ regression.pc = "returned"
  /\ Len(regression.points) = 3
  /\ regression.denom > 0
  /\ regression.denom < 10
  /\ LeastSquaresNumerator(regression.points) # 0
  /\ regression.result = 0

\* A call that divided: the denominator is 16e-10 and the slope returned is
\* not zero.
C22_WitnessDivided ==
  /\ regression.pc = "returned"
  /\ regression.divided
  /\ regression.denom = 16
  /\ regression.result # 0

(***************************************************************************)
(* SpecAlerts: an AlertManager driven by the loop of main: alert_low and   *)
(* alert_high requests in any order, the clock advancing between and       *)
(* within them.                                                            *)
(***************************************************************************)
\* --cooldown-min: 3 minutes, and the default 10.
Cooldowns == {3, 10}

InitAlerts == Constructed(370 * GScale, DefaultDoseStep, "watch")

\* alerts = AlertManager(webhook_url, cooldown_minutes)
NewAlertManager ==
  /\ alerts.pc = "idle"
  /\ \E c \in Cooldowns :
       alerts' = [alerts EXCEPT !.pc = "running", !.cooldown = c]
  /\ UNCHANGED <<simVars, regression, dispenser, feeder, bot>>

\* time.sleep(args.poll_sec), and whatever else passes time.
ClockTick ==
  /\ alerts.pc = "running"
  /\ alerts.now < MaxClock
  /\ alerts' = [alerts EXCEPT !.now = @ + 1]
  /\ UNCHANGED <<simVars, regression, dispenser, feeder, bot>>

\* The clock values a second datetime.now() may return after one that
\* returned now.
LaterReads(now) == {t \in {now, now + 1} : t <= MaxClock}

\* alerts.alert_low(...): _can_fire reads the clock; when it allows the
\* alert, _last_low is set from a second read of the clock and the alert is
\* posted.
AlertLow ==
  /\ alerts.pc = "running"
  /\ IF _can_fire(alerts._last_low, alerts.now, alerts.cooldown)
       THEN \E stamp \in LaterReads(alerts.now) :
              alerts' = [alerts EXCEPT
                           !.now = stamp,
                           !._last_low = stamp,
                           !.sent_low = Append(@, stamp),
                           !.request = [kind |-> "low", at |-> alerts.now,
                                        fired |-> TRUE]]
       ELSE alerts' = [alerts EXCEPT
                         !.request = [kind |-> "low", at |-> alerts.now,
                                      fired |-> FALSE]]
  /\ UNCHANGED <<simVars, regression, dispenser, feeder, bot>>

\* alerts.alert_high(...)
AlertHigh ==
  /\ alerts.pc = "running"
  /\ IF _can_fire(alerts._last_high, alerts.now, alerts.cooldown)
       THEN \E stamp \in LaterReads(alerts.now) :
              alerts' = [alerts EXCEPT
                           !.now = stamp,
                           !._last_high = stamp,
                           !.sent_high = Append(@, stamp),
                           !.request = [kind |-> "high", at |-> alerts.now,
                                        fired |-> TRUE]]
       ELSE alerts' = [alerts EXCEPT
                         !.request = [kind |-> "high", at |-> alerts.now,
                                      fired |-> FALSE]]
  /\ UNCHANGED <<simVars, regression, dispenser, feeder, bot>>

NextAlerts ==
  \/ NewAlertManager
  \/ ClockTick
  \/ AlertLow
  \/ AlertHigh

SpecAlerts == InitAlerts /\ [][NextAlerts]_vars

\* Every two times of the list are at least gap apart.
SpacedBy(times, gap) ==
  \A i, j \in DOMAIN times : i < j => times[j] - times[i] >= gap

\* Whether the step is a request of the kind made inside the cooldown that
\* began at last_.
RequestInside(kind, last_) ==
  /\ alerts.pc = "running"
  /\ alerts'.request.kind = kind
  /\ alerts'.request # alerts.request \/ alerts' = alerts
  /\ last_ # NoTime
  /\ alerts.now - last_ < alerts.cooldown

\* C29: AlertManager cooldown: for each alert type separately, every two
\* alerts of the type that were sent are at least cooldown apart; an alert
\* request arriving inside the cooldown of its own type sends nothing and
\* does not restart the cooldown; a low alert never delays or suppresses a
\* high alert, nor the reverse: a request fires exactly when no alert of its
\* own type was sent within the cooldown, and leaves the other type's last
\* time and alerts as they were.
C29_CooldownPerType ==
  /\ [](SpacedBy(alerts.sent_low, alerts.cooldown)
        /\ SpacedBy(alerts.sent_high, alerts.cooldown))
  /\ [][/\ RequestInside("low", alerts._last_low)
              => /\ alerts'.sent_low = alerts.sent_low
                 /\ alerts'._last_low = alerts._last_low
        /\ RequestInside("high", alerts._last_high)
              => /\ alerts'.sent_high = alerts.sent_high
                 /\ alerts'._last_high = alerts._last_high
        /\ (alerts.pc = "running" /\ alerts'.request.kind = "low"
              /\ alerts'.request # alerts.request)
              => /\ alerts'.request.fired
                      = (\A i \in DOMAIN alerts.sent_low :
                           alerts.now - alerts.sent_low[i] >= alerts.cooldown)
                 /\ alerts'.sent_high = alerts.sent_high
                 /\ alerts'._last_high = alerts._last_high
        /\ (alerts.pc = "running" /\ alerts'.request.kind = "high"
              /\ alerts'.request # alerts.request)
              => /\ alerts'.request.fired
                      = (\A i \in DOMAIN alerts.sent_high :
                           alerts.now - alerts.sent_high[i] >= alerts.cooldown)
                 /\ alerts'.sent_low = alerts.sent_low
                 /\ alerts'._last_low = alerts._last_low
       ]_vars

\* C29 witness: two low alerts were sent exactly one cooldown apart, a low
\* request in between was suppressed, and a high alert was sent inside the
\* cooldown of the first low alert.
C29_Witness ==
  /\ alerts.pc = "running"
  /\ Len(alerts.sent_low) = 2
  /\ alerts.sent_low[2] - alerts.sent_low[1] = alerts.cooldown
  /\ Len(alerts.sent_high) >= 1
  /\ alerts.sent_high[1] > alerts.sent_low[1]
  /\ alerts.sent_high[1] - alerts.sent_low[1] < alerts.cooldown

(***************************************************************************)
(* SpecDispense: one call of dispense(portions), one action per iteration  *)
(* of its while loop, the switch and the clock read as the hardware        *)
(* presents them.                                                          *)
(***************************************************************************)
\* portions: the /feed command of feeder_bot.py passes any integer.
Portions == {0 - 1, 0, 1, 2}

\* Milliseconds between two reads of monotonic() in consecutive iterations:
\* the 2 ms sleep, 78 ms, and 4 s (the thread was not scheduled).
Advances == {2, 78, 4000}

InitDispense == Constructed(370 * GScale, DefaultDoseStep, "feed")

\* dispense(portions) is entered: the locals are set and motor.on() called.
CallDispense ==
  /\ dispenser.pc = "idle"
  /\ \E portions \in Portions :
       dispenser' = [dispenser EXCEPT
                       !.pc = "loop", !.motor = "on", !.portions = portions,
                       !.done = 0, !.last_cycle_t = 0, !.pressed = FALSE,
                       !.start = dispenser.clock]
  /\ UNCHANGED <<simVars, regression, alerts, feeder, bot>>

\* One iteration of while done < portions: the clock is read, then either
\* the failsafe returns False or the switch is read and the cycle counter
\* stepped; the finally clause turns the motor off on the return.
Poll ==
  /\ dispenser.pc = "loop"
  /\ dispenser.done < dispenser.portions
  /\ dispenser.polls < MaxPolls
  /\ \E adv \in Advances, is_pressed \in BOOLEAN :
       LET now == dispenser.clock + adv
           f   == [dispenser EXCEPT !.clock = now, !.polls = @ + 1]
       IN  dispenser' =
             IF now - dispenser.start > MAX_RUN_S
               THEN [f EXCEPT !.pc = "returned", !.result = "False",
                              !.motor = "off"]
               ELSE PollStep(f, now, is_pressed)
  /\ UNCHANGED <<simVars, regression, alerts, feeder, bot>>

\* The loop condition fails: return True, through the finally clause.
ReturnTrue ==
  /\ dispenser.pc = "loop"
  /\ dispenser.done >= dispenser.portions
  /\ dispenser' = [dispenser EXCEPT !.pc = "returned", !.result = "True",
                                    !.motor = "off"]
  /\ UNCHANGED <<simVars, regression, alerts, feeder, bot>>

\* An exception leaves the loop (the switch read or a print raises, or the
\* thread is interrupted), through the finally clause.
RaiseInLoop ==
  /\ dispenser.pc = "loop"
  /\ dispenser' = [dispenser EXCEPT !.pc = "raised", !.motor = "off"]
  /\ UNCHANGED <<simVars, regression, alerts, feeder, bot>>

NextDispense ==
  \/ CallDispense
  \/ Poll
  \/ ReturnTrue
  \/ RaiseInLoop

SpecDispense == InitDispense /\ [][NextDispense]_vars

\* What C27 states of every call but the exact count: the motor is off
\* after every way out; every counted cycle is a release read after a press
\* was read, at least MIN_CYCLE_S after the previously counted one; False is
\* returned only with the count not reached and more than MAX_RUN_S elapsed
\* since the motor was switched on, and is returned by the first iteration
\* that reads such a clock.
DispenseSafe ==
  /\ [](/\ dispenser.pc \in {"idle", "returned", "raised"} => dispenser.motor = "off"
        /\ Len(dispenser.counted) = dispenser.done
        /\ \A i \in DOMAIN dispenser.counted :
             /\ dispenser.counted[i].press < dispenser.counted[i].release
             /\ i > 1 => dispenser.counted[i].release
                           - dispenser.counted[i - 1].release >= MIN_CYCLE_S
        /\ dispenser.result = "False"
             => /\ dispenser.done < dispenser.portions
                /\ dispenser.clock - dispenser.start > MAX_RUN_S)
  /\ [][(dispenser.pc = "loop" /\ dispenser'.polls = dispenser.polls + 1
           /\ dispenser'.clock - dispenser.start > MAX_RUN_S)
          => dispenser'.result = "False" /\ dispenser'.done = dispenser.done]_vars

\* C27 (as stated): the above, and dispense returns True only after it has
\* counted exactly portions press-then-release cycles.
C27_ExactCountAsStated ==
  /\ DispenseSafe
  /\ [](dispenser.result = "True"
          => Len(dispenser.counted) = dispenser.portions)

\* C27 (amended): the above, and dispense returns True only when the count
\* is not below portions: after exactly portions counted cycles when
\* portions >= 0, and at once, with no cycle counted, when portions < 0.
C27_DispenseContract ==
  /\ DispenseSafe
  /\ [](dispenser.result = "True"
          => Len(dispenser.counted) = Max(0, dispenser.portions))

\* C27 witness: dispense(2) returned True after two counted cycles, a
\* release in between having been ignored as bounce.
C27_Witness ==
  /\ dispenser.result = "True"
  /\ dispenser.portions = 2
  /\ Len(dispenser.counted) = 2
  /\ dispenser.ignored >= 1
  /\ dispenser.motor = "off"

\* dispense(2) returned False on the failsafe with one cycle counted.
C27_WitnessTimeout ==
  /\ dispenser.result = "False"
  /\ dispenser.portions = 2
  /\ Len(dispenser.counted) = 1
  /\ dispenser.motor = "off"

(***************************************************************************)
(* SpecFeeder: the module-level FeederController driven by a sequential    *)
(* sequence of request_feed and request_rescue calls (post_feed and        *)
(* post_rescue, one at a time).                                            *)
(***************************************************************************)
\* request.portions: not positive, accepted (2 and the maximum 4), above
\* the maximum.
FeedPortions == {0, 2, 4, 5}

\* What dispense does when it is called.
DispenseOutcomes == {"True", "False", "raise"}

\* Minutes between one request and the next: the same minute, just inside
\* and exactly at the end of the feed lockout, and the rescue lockout.
Gaps == {0, 4, 5, 45}

InitFeeder == Constructed(370 * GScale, DefaultDoseStep, "feeder")

\* post_feed: feeder.request_feed(request.portions)
PostFeed ==
  /\ feeder.requests < MaxRequests
  /\ \E gap \in Gaps, portions \in FeedPortions, outcome \in DispenseOutcomes :
       LET now == feeder.now + gap
       IN  feeder' = request_feed([feeder EXCEPT !.now = now, !.requests = @ + 1],
                                  now, portions, outcome)
  /\ UNCHANGED <<simVars, regression, alerts, dispenser, bot>>

\* post_rescue: feeder.request_rescue()
PostRescue ==
  /\ feeder.requests < MaxRequests
  /\ \E gap \in Gaps :
       LET now == feeder.now + gap
       IN  feeder' = request_rescue([feeder EXCEPT !.now = now, !.requests = @ + 1],
                                    now)
  /\ UNCHANGED <<simVars, regression, alerts, dispenser, bot>>

NextFeeder ==
  \/ PostFeed
  \/ PostRescue

SpecFeeder == InitFeeder /\ [][NextFeeder]_vars

\* The step is a request_feed call that the claim says is refused.
RefusedFeed ==
  /\ feeder'.requests = feeder.requests + 1
  /\ feeder'.event.kind = "feed"
  /\ \/ feeder'.event.portions <= 0
     \/ feeder'.event.portions > 4
     \/ (feeder._lockout_until # NoTime
           /\ feeder'.event.timestamp < feeder._lockout_until)

\* C28: FeederController lockout: a request_feed with portions <= 0 or
\* portions > 4, or made before lockout_until, returns a failed event
\* without calling dispense and without changing lockout_until or last_feed;
\* every request_feed that does call dispense sets lockout_until to its own
\* time plus 5 minutes whether dispense succeeded or failed; every accepted
\* request_rescue sets it to its own time plus 45 minutes; so two dispense
\* calls are at least 5 minutes apart and lockout_until never moves
\* backwards.
C28_FeederLockout ==
  /\ [][/\ RefusedFeed
              => /\ ~feeder'.event.success
                 /\ feeder'.dispensed = feeder.dispensed
                 /\ feeder'._lockout_until = feeder._lockout_until
                 /\ feeder'._last_feed = feeder._last_feed
        /\ (feeder'.requests = feeder.requests + 1
              /\ feeder'.event.kind = "feed" /\ ~RefusedFeed)
              => /\ feeder'.dispensed = Append(feeder.dispensed, feeder'.event.timestamp)
                 /\ feeder'._last_feed = feeder'.event
        /\ feeder'.dispensed # feeder.dispensed
              => feeder'._lockout_until = feeder'.event.timestamp + 5
        /\ (feeder'.requests = feeder.requests + 1
              /\ feeder'.event.kind = "rescue" /\ feeder'.event.success)
              => feeder'._lockout_until = feeder'.event.timestamp + 45
        /\ feeder'._lockout_until >= feeder._lockout_until
       ]_vars
  /\ [](SpacedBy(feeder.dispensed, 5))

\* C28 witness: three requests were made; the first called dispense, the
\* second, four minutes later, did not, and the third, five minutes after
\* the second, called dispense, succeeded and set the lockout.
C28_Witness ==
  /\ feeder.requests = 3
  /\ Len(feeder.dispensed) = 2
  /\ feeder.dispensed[2] - feeder.dispensed[1] = 5 + 4
  /\ feeder._last_feed.success
  /\ feeder._lockout_until = feeder.now + 5

(***************************************************************************)
(* SpecBot: /rescue and /feed commands arriving while earlier commands are *)
(* still running.  The blocking calls servo_rotate_once and dispense run   *)
(* in the threads of the default executor (loop.run_in_executor(None, ..)),*)
(* which has more worker threads than MaxCommands.                         *)
(***************************************************************************)
InitBot == Constructed(370 * GScale, DefaultDoseStep, "bot")

\* /rescue arrives: rescue_cmd defers the interaction and reaches
\* async with rescue_lock.
ArriveRescue ==
  /\ Len(bot.commands) < MaxCommands
  /\ bot' = [bot EXCEPT !.commands = Append(@, [kind |-> "rescue", pc |-> "acked"])]
  /\ UNCHANGED <<simVars, regression, alerts, dispenser, feeder>>

\* /feed arrives: feed sends "Feeding ..." and reaches run_in_executor.
ArriveFeed ==
  /\ Len(bot.commands) < MaxCommands
  /\ bot' = [bot EXCEPT !.commands = Append(@, [kind |-> "feed", pc |-> "acked"])]
  /\ UNCHANGED <<simVars, regression, alerts, dispenser, feeder>>

\* rescue_cmd: async with rescue_lock is entered when the lock is free, and
\* servo_rotate_once is handed to the executor.
RescueStart ==
  \E i \in DOMAIN bot.commands :
    /\ bot.commands[i] = [kind |-> "rescue", pc |-> "acked"]
    /\ bot.rescue_lock = 0
    /\ bot' = [bot EXCEPT !.rescue_lock = i, !.commands[i].pc = "running"]
    /\ UNCHANGED <<simVars, regression, alerts, dispenser, feeder>>

\* rescue_cmd: servo_rotate_once returns or raises; the async with block is
\* left and the lock released.
RescueFinish ==
  \E i \in DOMAIN bot.commands :
    /\ bot.commands[i] = [kind |-> "rescue", pc |-> "running"]
    /\ bot' = [bot EXCEPT !.rescue_lock = 0, !.commands[i].pc = "done"]
    /\ UNCHANGED <<simVars, regression, alerts, dispenser, feeder>>

\* feed: dispense(portions) is handed to the executor.
FeedStart ==
  \E i \in DOMAIN bot.commands :
    /\ bot.commands[i] = [kind |-> "feed", pc |-> "acked"]
    /\ bot' = [bot EXCEPT !.commands[i].pc = "running"]
    /\ UNCHANGED <<simVars, regression, alerts, dispenser, feeder>>

\* feed: dispense returns and the follow-up message is sent.
FeedFinish ==
  \E i \in DOMAIN bot.commands :
    /\ bot.commands[i] = [kind |-> "feed", pc |-> "running"]
    /\ bot' = [bot EXCEPT !.commands[i].pc = "done"]
    /\ UNCHANGED <<simVars, regression, alerts, dispenser, feeder>>

NextBot ==
  \/ ArriveRescue
  \/ ArriveFeed
  \/ RescueStart
  \/ RescueFinish
  \/ FeedStart
  \/ FeedFinish

SpecBot == InitBot /\ [][NextBot]_vars

\* The commands of the kind whose actuator call is in progress.
Running(kind) ==
  {i \in DOMAIN bot.commands : bot.commands[i] = [kind |-> kind, pc |-> "running"]}

\* At most one servo_rotate_once execution is in progress.
ServoRunsExclusive == Cardinality(Running("rescue")) <= 1

\* C30 (as stated): actuator runs never overlap inside the bot process: at
\* any time at most one servo_rotate_once execution is in progress and at
\* most one dispense execution is driving the feeder motor, whatever the
\* interleaving of /rescue and /feed commands.
C30_ActuatorRunsNeverOverlap ==
  /\ ServoRunsExclusive
  /\ Cardinality(Running("feed")) <= 1

====
